---- MODULE Spec2Model ----
(***************************************************************************)
(* Model of trust_spec/_reference_model.py: the event application engine   *)
(* (apply_event), the hash-chained event and receipt logs, and the two     *)
(* evaluators (evaluate_trust, evaluate_respect).                          *)
(*                                                                         *)
(* Representation of Python values.                                        *)
(*  - A dict (event, receipt) is a record holding exactly the keys that    *)
(*    are present with a value other than None: d.get(k) is None is        *)
(*    ~Has(d, k).                                                          *)
(*  - Flags are BOOLEAN; identifiers and enumerated strings are strings;   *)
(*    integers computed by the engine (time, issued_at, receipt_id, clock) *)
(*    are integers.                                                        *)
(*  - A caller-supplied value whose Python type the code depends on        *)
(*    (ticks, delay, duration, expires_at, scope, telemetry_refs,          *)
(*    affected_susers, authority_chain_override, ...) is tagged:           *)
(*    <<"int", n>>, <<"str", s>>, <<"list", seq>>, <<"dict", rec>>.        *)
(*  - The time of an entry the engine stamped is an integer, under time.   *)
(*    An entry put into a State by hand can hold a time of another shape:  *)
(*    it is kept, tagged, under bad_time, and int() of it raises.          *)
(*  - State.event_log is the heap of event objects: State.delegations,     *)
(*    consents, telemetry, decisions, ... hold the very dict object that   *)
(*    was appended to event_log (copy.deepcopy keeps that sharing), so     *)
(*    they are modelled as indices into event_log.                         *)
(*  - SHA-256 is modelled as collision free: a digest is the pair of what  *)
(*    was hashed.                                                          *)
(***************************************************************************)
EXTENDS Integers, Sequences, FiniteSets, TLC

VARIABLES state, receipts, raised, event, steps

vars == <<state, receipts, raised, event, steps>>

-----------------------------------------------------------------------------
(* Python values *)

PyInt(n) == <<"int", n>>
PyStr(s) == <<"str", s>>
PyList(q) == <<"list", q>>
PyDict(r) == <<"dict", r>>
\* None where a tagged value stands (a list element, a chain tail)
PyNone == <<"none">>

IsInt(v) == v[1] = "int"
IsStr(v) == v[1] = "str"
IsList(v) == v[1] = "list"
IsDict(v) == v[1] = "dict"

\* bool(v) of a tagged value
Truthy(v) ==
    CASE IsInt(v) -> v[2] # 0
      [] IsStr(v) -> v[2] # ""
      [] IsList(v) -> Len(v[2]) > 0
      [] IsDict(v) -> DOMAIN v[2] # {}

Has(d, k) == k \in DOMAIN d

\* d.get(k, default)
Get(d, k, default) == IF Has(d, k) THEN d[k] ELSE default

\* bool(d.get(k)) of a flag
Flag(d, k) == Has(d, k) /\ d[k] = TRUE

\* d.get(k) is False
IsFalse(d, k) == Has(d, k) /\ d[k] = FALSE

\* the dict holding the keys of d that are in keys
Sub(d, keys) == [k \in (keys \cap DOMAIN d) |-> d[k]]

\* d without the keys in keys
Without(d, keys) == [k \in (DOMAIN d \ keys) |-> d[k]]

EmptyDict == <<>>

\* None as a member of State.susers / State.services
NoneId == "<None>"

\* A Python dict that is iterated: its (key, value) pairs in insertion order.
DictHas(d, k) == \E i \in DOMAIN d : d[i][1] = k
DictGet(d, k) == d[CHOOSE i \in DOMAIN d : d[i][1] = k][2]
DictPut(d, k, v) ==
    IF DictHas(d, k)
    THEN [i \in DOMAIN d |-> IF d[i][1] = k THEN <<k, v>> ELSE d[i]]
    ELSE Append(d, <<k, v>>)

-----------------------------------------------------------------------------
(* Canonicalization and hash chain *)

KNOWN_EVENT_TYPES ==
    {"delegation", "revoke_delegation", "consent", "withdraw_consent",
     "telemetry", "service_action", "shared_action", "time_advance",
     "boundary_declaration", "entry_condition", "entry_request",
     "boundary_rule", "revocation_policy", "default_setting",
     "federated_governance", "boundary_failure_modes", "respect_principles",
     "participation_declaration", "trust_audit", "respect_audit",
     "enforcement", "disclosure", "limitation_disclosure",
     "reductionist_metric"}

DEFAULT_BASE_TIME_UTC == [year |-> 2026, month |-> 1, day |-> 1, second |-> 0]

\* base + timedelta(seconds = event_time), for a base at the first day of a
\* year and |event_time| below one day: the calendar date and the second of
\* that day.
event_time_utc(base_time_utc, event_time) ==
    LET s == base_time_utc.second + event_time
    IN IF s >= 0
       THEN [base_time_utc EXCEPT !.second = s]
       ELSE [year |-> base_time_utc.year - 1, month |-> 12, day |-> 31,
             second |-> s + 86400]

\* None as a chain tail
NoHash == PyNone

\* sha256(canonical_json({"prev_hash": prev_hash, "payload": payload}))
hash_chain(payload, prev_hash) == <<"sha256", prev_hash, payload>>

strip_hash_fields(entry, keys) == Without(entry, keys)

-----------------------------------------------------------------------------
(* State *)

NewState ==
    [susers |-> {}, services |-> {}, telemetry_sources |-> {},
     delegations |-> <<>>, consents |-> <<>>, telemetry |-> <<>>,
     decisions |-> <<>>, boundaries |-> <<>>, entry_conditions |-> <<>>,
     shared_actions |-> <<>>, defaults |-> <<>>, enforcement |-> <<>>,
     audits |-> <<>>, disclosures |-> <<>>, limitation_disclosures |-> <<>>,
     event_log |-> <<>>, receipt_log |-> <<>>,
     next_receipt_id |-> 1, clock |-> 0, telemetry_exposure |-> <<>>,
     base_time_utc |-> DEFAULT_BASE_TIME_UTC,
     event_hash_prev |-> NoHash, receipt_hash_prev |-> NoHash]

\* A reference held by a State collection: the event_log entry itself, or
\* (boundaries only) a dict of its own made by setdefault(environment_id, {}).
Ref(i) == <<"ref", i>>
Own(d) == <<"own", d>>
Deref(st, r) == IF r[1] = "ref" THEN st.event_log[r[2]] ELSE r[2]

\* the result of one apply_event call
Ok(st, rs) == [raised |-> "none", state |-> st, receipts |-> rs]
\* an exception leaves the caller with the state it passed in
Raise(st, exc) == [raised |-> exc, state |-> st, receipts |-> <<>>]

-----------------------------------------------------------------------------
(* apply_event *)

\* int(event.get(k) or 0): [exc, val]
int_or_zero(e, k) ==
    IF ~Has(e, k) \/ ~Truthy(e[k]) THEN [exc |-> "none", val |-> 0]
    ELSE IF IsInt(e[k]) THEN [exc |-> "none", val |-> e[k][2]]
    ELSE IF IsStr(e[k]) THEN [exc |-> "ValueError", val |-> 0]
    ELSE [exc |-> "TypeError", val |-> 0]

\* stamp_event that keeps a time the incoming event already carries
stamp_event_keeping_time(st, ev) ==
    LET e0 == Without(ev, {"event_hash", "event_hash_prev", "time_utc"})
        e1 == e0 @@ [time |-> st.clock,
                     time_utc |-> event_time_utc(st.base_time_utc, st.clock)]
        h == hash_chain(strip_hash_fields(e1, {"event_hash", "event_hash_prev"}),
                        st.event_hash_prev)
    IN [event_hash_prev |-> st.event_hash_prev, event_hash |-> h] @@ e1

\* The event as logged: incoming event_hash, event_hash_prev and time_utc are
\* dropped, time and time_utc are set from the clock, and the entry is
\* chained to the previous event.
stamp_event(st, ev) ==
    LET e0 == Without(ev, {"event_hash", "event_hash_prev", "time_utc"})
        e1 == [time |-> st.clock,
               time_utc |-> event_time_utc(st.base_time_utc, st.clock)] @@ e0
        h == hash_chain(strip_hash_fields(e1, {"event_hash", "event_hash_prev"}),
                        st.event_hash_prev)
    IN [event_hash_prev |-> st.event_hash_prev, event_hash |-> h] @@ e1

log_event(st, e) ==
    [st EXCEPT !.event_hash_prev = e.event_hash,
               !.event_log = Append(@, e)]

\* add_receipt with every receipt chained to None instead of the chain tail
add_receipt_unchained(st, data, event_time) ==
    LET r0 == [receipt_id |-> st.next_receipt_id,
               time |-> event_time,
               time_utc |-> event_time_utc(st.base_time_utc, event_time)] @@ data
        h == hash_chain(strip_hash_fields(r0, {"receipt_hash", "receipt_hash_prev"}),
                        NoHash)
        r == [receipt_hash_prev |-> NoHash, receipt_hash |-> h] @@ r0
    IN Ok([st EXCEPT !.receipt_hash_prev = h,
                     !.next_receipt_id = @ + 1,
                     !.receipt_log = Append(@, r)],
          <<r>>)

\* add_receipt that leaves next_receipt_id as it was
add_receipt_unnumbered(st, data, event_time) ==
    LET r0 == [receipt_id |-> st.next_receipt_id,
               time |-> event_time,
               time_utc |-> event_time_utc(st.base_time_utc, event_time)] @@ data
        h == hash_chain(strip_hash_fields(r0, {"receipt_hash", "receipt_hash_prev"}),
                        st.receipt_hash_prev)
        r == [receipt_hash_prev |-> st.receipt_hash_prev, receipt_hash |-> h] @@ r0
    IN Ok([st EXCEPT !.receipt_hash_prev = h,
                     !.receipt_log = Append(@, r)],
          <<r>>)

\* _add_receipt / _add_error_receipt: the receipt gets its id, the event's
\* time and its place in the receipt chain, and is appended to receipt_log.
add_receipt(st, data, event_time) ==
    LET r0 == [receipt_id |-> st.next_receipt_id,
               time |-> event_time,
               time_utc |-> event_time_utc(st.base_time_utc, event_time)] @@ data
        h == hash_chain(strip_hash_fields(r0, {"receipt_hash", "receipt_hash_prev"}),
                        st.receipt_hash_prev)
        r == [receipt_hash_prev |-> st.receipt_hash_prev, receipt_hash |-> h] @@ r0
    IN Ok([st EXCEPT !.receipt_hash_prev = h,
                     !.next_receipt_id = @ + 1,
                     !.receipt_log = Append(@, r)],
          <<r>>)

\* the event_log entry i with the keys of d set (a write through a shared
\* reference)
update_entry(st, i, d) == [st EXCEPT !.event_log[i] = d @@ @]

\* the error path with the error event taken for a trust_audit record as well
apply_error_recording(st, ev) ==
    LET e0 == Without(ev, {"event_hash", "event_hash_prev", "time_utc"})
        e1 == [type |-> "error",
               error |-> IF Has(ev, "type")
                         THEN <<"unknown_event_type", ev.type>>
                         ELSE <<"missing_event_type">>]
              @@ (IF Has(ev, "type") THEN [original_type |-> ev.type] ELSE EmptyDict)
              @@ Without(e0, {"original_type"})
        e == stamp_event(st, e1)
        st1 == log_event(st, e)
    IN add_receipt([st1 EXCEPT !.audits = DictPut(@, "trust", Ref(Len(st1.event_log)))],
                   [type |-> "error_receipt", error |-> e.error]
                   @@ (IF Has(ev, "type") THEN [event_type |-> ev.type] ELSE EmptyDict),
                   st.clock)

\* unknown or missing type: logged as an error event with one error_receipt
apply_error(st, ev) ==
    LET e0 == Without(ev, {"event_hash", "event_hash_prev", "time_utc"})
        e1 == [type |-> "error",
               error |-> IF Has(ev, "type")
                         THEN <<"unknown_event_type", ev.type>>
                         ELSE <<"missing_event_type">>]
              @@ (IF Has(ev, "type") THEN [original_type |-> ev.type] ELSE EmptyDict)
              @@ Without(e0, {"original_type"})
        e == stamp_event(st, e1)
        st1 == log_event(st, e)
    IN add_receipt(st1,
                   [type |-> "error_receipt", error |-> e.error]
                   @@ (IF Has(ev, "type") THEN [event_type |-> ev.type] ELSE EmptyDict),
                   st.clock)

\* expires_at = event_time + duration when none is given: [exc, d] with d the
\* keys to set on the event
expiry(e, duration_given, duration, event_time) ==
    IF ~Has(e, "expires_at") /\ duration_given
    THEN IF IsInt(duration)
         THEN [exc |-> "none", d |-> [expires_at |-> PyInt(event_time + duration[2])]]
         ELSE [exc |-> "TypeError", d |-> EmptyDict]
    ELSE [exc |-> "none", d |-> EmptyDict]

handle_delegation(st0, st, i) ==
    LET e == st.event_log[i]
        scope_ok == ~Has(e, "scope") \/ ~Truthy(e.scope) \/ IsDict(e.scope)
        scope == IF Has(e, "scope") /\ Truthy(e.scope) THEN e.scope[2] ELSE EmptyDict
        x == expiry(e, Has(scope, "duration"), Get(scope, "duration", PyNone), e.time)
        e2 == [issued_at |-> e.time] @@ x.d @@ e
        st1 == [update_entry(st, i, e2) EXCEPT
                  !.delegations = DictPut(@, e.delegation_id, Ref(i)),
                  !.susers = @ \cup {Get(e, "suser_id", NoneId)},
                  !.services = @ \cup {Get(e, "grantee_id", NoneId)}]
    IN IF ~Has(e, "delegation_id") THEN Raise(st0, "KeyError")
       ELSE IF ~scope_ok THEN Raise(st0, "AttributeError")
       ELSE IF x.exc # "none" THEN Raise(st0, x.exc)
       ELSE add_receipt(st1,
              [type |-> "delegation_receipt", issued_at |-> e.time]
              @@ Sub(e2, {"delegation_id", "suser_id", "grantee_id", "explicit",
                          "scoped", "revocable", "suser_can_inspect",
                          "suser_can_contest", "suser_can_revoke",
                          "derived_from_use", "scope", "revocation_path",
                          "expires_at"}),
              e.time)

handle_revoke_delegation(st0, st, i) ==
    LET e == st.event_log[i]
        delay == int_or_zero(e, "delay")
        effective_at == e.time + delay.val
        d == [revocation_requested_at |-> e.time,
              revocation_effective_at |-> effective_at]
             @@ (IF delay.val = 0 THEN [revoked |-> TRUE] ELSE EmptyDict)
        st1 == IF DictHas(st.delegations, e.delegation_id)
               THEN update_entry(st, DictGet(st.delegations, e.delegation_id)[2], d)
               ELSE st
    IN IF ~Has(e, "delegation_id") THEN Raise(st0, "KeyError")
       ELSE IF delay.exc # "none" THEN Raise(st0, delay.exc)
       ELSE add_receipt(st1,
              [type |-> "delegation_revocation_receipt",
               revoked |-> (delay.val = 0), delay |-> delay.val,
               requested_at |-> e.time, effective_at |-> effective_at]
              @@ Sub(e, {"delegation_id", "delay_disclosed"}),
              e.time)

handle_consent(st0, st, i) ==
    LET e == st.event_log[i]
        st1 == [st EXCEPT !.consents = DictPut(@, e.consent_id, Ref(i)),
                          !.susers = @ \cup {Get(e, "suser_id", NoneId)}]
    IN IF ~Has(e, "consent_id") THEN Raise(st0, "KeyError")
       ELSE add_receipt(st1,
              [type |-> "consent_receipt"]
              @@ Sub(e, {"consent_id", "suser_id", "purpose", "informed",
                         "specific", "revocable", "revocation_effective",
                         "bundled", "coerced", "dark_pattern", "assumed_by_use"}),
              e.time)

\* withdraw_consent that emits its receipt and leaves the stored consent as it was
handle_withdraw_consent_unmarked(st0, st, i) ==
    LET e == st.event_log[i]
    IN IF ~Has(e, "consent_id") THEN Raise(st0, "KeyError")
       ELSE add_receipt(st,
              [type |-> "consent_withdrawal_receipt", withdrawn |-> TRUE]
              @@ Sub(e, {"consent_id"}),
              e.time)

handle_withdraw_consent(st0, st, i) ==
    LET e == st.event_log[i]
        st1 == IF DictHas(st.consents, e.consent_id)
               THEN update_entry(st, DictGet(st.consents, e.consent_id)[2],
                                 [withdrawn |-> TRUE])
               ELSE st
    IN IF ~Has(e, "consent_id") THEN Raise(st0, "KeyError")
       ELSE add_receipt(st1,
              [type |-> "consent_withdrawal_receipt", withdrawn |-> TRUE]
              @@ Sub(e, {"consent_id"}),
              e.time)

\* telemetry whose exposure counter restarts at 1 on every event
handle_telemetry_uncounted(st0, st, i) ==
    LET e == st.event_log[i]
        st1 == [st EXCEPT !.telemetry = DictPut(@, e.telemetry_id, Ref(i)),
                          !.telemetry_sources = @ \cup {e.telemetry_id},
                          !.telemetry_exposure = DictPut(@, e.telemetry_id, 1)]
    IN IF ~Has(e, "telemetry_id") THEN Raise(st0, "KeyError")
       ELSE add_receipt(st1,
              [type |-> "telemetry_receipt", exposure_count |-> 1]
              @@ Sub(e, {"telemetry_id", "influences", "explained",
                         "human_explainable", "prescriptive_use",
                         "reports_to_service", "self_originating"}),
              e.time)

handle_telemetry(st0, st, i) ==
    LET e == st.event_log[i]
        count == IF DictHas(st.telemetry_exposure, e.telemetry_id)
                 THEN DictGet(st.telemetry_exposure, e.telemetry_id) + 1
                 ELSE 1
        st1 == [st EXCEPT !.telemetry = DictPut(@, e.telemetry_id, Ref(i)),
                          !.telemetry_sources = @ \cup {e.telemetry_id},
                          !.telemetry_exposure = DictPut(@, e.telemetry_id, count)]
    IN IF ~Has(e, "telemetry_id") THEN Raise(st0, "KeyError")
       ELSE add_receipt(st1,
              [type |-> "telemetry_receipt", exposure_count |-> count]
              @@ Sub(e, {"telemetry_id", "influences", "explained",
                         "human_explainable", "prescriptive_use",
                         "reports_to_service", "self_originating"}),
              e.time)

\* list(chain_override) for a list, an integer, or a dict of at most one key
\* (whose list is its keys): [exc, val]
list_of(v) ==
    CASE IsList(v) -> [exc |-> "none", val |-> v[2]]
      [] IsInt(v) -> [exc |-> "TypeError", val |-> <<>>]
      [] IsDict(v) -> [exc |-> "none",
                       val |-> IF DOMAIN v[2] = {} THEN <<>>
                               ELSE <<PyStr(CHOOSE k \in DOMAIN v[2] : TRUE)>>]

handle_service_action(st0, st, i) ==
    LET e == st.event_log[i]
        override == IF Has(e, "authority_chain_override")
                    THEN list_of(e.authority_chain_override)
                    ELSE [exc |-> "none", val |-> <<>>]
        authority_chain ==
            IF Has(e, "authority_chain_override") THEN override.val
            ELSE IF Has(e, "delegation_id") /\ DictHas(st.delegations, e.delegation_id)
            THEN LET g == Deref(st, DictGet(st.delegations, e.delegation_id))
                 IN <<PyStr(e.delegation_id),
                      IF Has(g, "suser_id") THEN PyStr(g.suser_id) ELSE PyNone>>
            ELSE <<>>
        st1 == [st EXCEPT !.decisions = Append(@, Ref(i)),
                          !.services = @ \cup {Get(e, "service_id", NoneId)},
                          !.susers = @ \cup {Get(e, "suser_id", NoneId)}]
    IN IF ~Has(e, "decision_id") THEN Raise(st0, "KeyError")
       ELSE IF override.exc # "none" THEN Raise(st0, override.exc)
       ELSE add_receipt(st1,
              [type |-> "decision_receipt",
               authority_chain |-> PyList(authority_chain),
               decision_time |-> e.time,
               redacted_fields |-> IF Has(e, "redacted_fields") /\ Truthy(e.redacted_fields)
                                   THEN e.redacted_fields ELSE PyList(<<>>),
               telemetry_refs |-> Get(e, "telemetry_refs", PyList(<<>>)),
               affected_susers |-> Get(e, "affected_susers", PyList(<<>>))]
              @@ (IF Has(e, "receipt_delivered")
                  THEN [delivered_to_suser |-> e.receipt_delivered] ELSE EmptyDict)
              @@ Sub(e, {"decision_id", "suser_id", "service_id", "delegation_id",
                         "consent_id", "explanation", "explanation_legible",
                         "report_to_suser", "contest_path", "revocation_path",
                         "context_id", "reporting_constraints",
                         "reporting_constraints_disclosed",
                         "explanation_delivered", "explanation_contextual"}),
              e.time)

handle_shared_action(st0, st, i) ==
    LET e == st.event_log[i]
    IN add_receipt([st EXCEPT !.shared_actions = Append(@, Ref(i))],
              [type |-> "shared_action_receipt",
               affected_susers |-> Get(e, "affected_susers", PyList(<<>>))]
              @@ Sub(e, {"environment_id", "actor_suser_id", "consent_basis"}),
              e.time)

\* time_advance whose receipt is built after the clock moved: from_time and
\* the receipt's stamp are the new clock
handle_time_advance_restamped(st0, st, i) ==
    LET e == st.event_log[i]
        ticks == int_or_zero(e, "ticks")
        st1 == [st EXCEPT !.clock = @ + ticks.val]
    IN IF ticks.exc # "none" THEN Raise(st0, ticks.exc)
       ELSE add_receipt(st1,
              [type |-> "time_receipt", ticks |-> ticks.val,
               from_time |-> st1.clock, to_time |-> st1.clock],
              st1.clock)

handle_time_advance(st0, st, i) ==
    LET e == st.event_log[i]
        ticks == int_or_zero(e, "ticks")
        st1 == [st EXCEPT !.clock = @ + ticks.val]
    IN IF ticks.exc # "none" THEN Raise(st0, ticks.exc)
       ELSE add_receipt(st1,
              [type |-> "time_receipt", ticks |-> ticks.val,
               from_time |-> e.time, to_time |-> st1.clock],
              e.time)

handle_boundary_declaration(st0, st, i) ==
    LET e == st.event_log[i]
    IN IF ~Has(e, "environment_id") THEN Raise(st0, "KeyError")
       ELSE add_receipt([st EXCEPT !.boundaries = DictPut(@, e.environment_id, Ref(i))],
              [type |-> "boundary_receipt"]
              @@ Sub(e, {"environment_id", "explicit", "scope", "constraints"}),
              e.time)

handle_entry_condition(st0, st, i) ==
    LET e == st.event_log[i]
    IN IF ~Has(e, "environment_id") THEN Raise(st0, "KeyError")
       ELSE add_receipt([st EXCEPT !.entry_conditions = DictPut(@, e.environment_id, Ref(i))],
              [type |-> "entry_condition_receipt"]
              @@ Sub(e, {"environment_id", "conditions_defined"}),
              e.time)

handle_entry_request(st0, st, i) ==
    LET e == st.event_log[i]
    IN add_receipt(st,
              [type |-> "entry_request_receipt"]
              @@ Sub(e, {"environment_id", "entry_conditions_met",
                         "entry_conditions_declared"}),
              e.time)

\* boundaries.setdefault(environment_id, {}).update(event): every key of the
\* logged event is written into the boundary record, which is the logged
\* boundary_declaration entry itself when one was declared.
boundary_update(st, i) ==
    LET e == st.event_log[i]
        env == Get(e, "environment_id", NoneId)
    IN IF DictHas(st.boundaries, env)
       THEN LET b == DictGet(st.boundaries, env)
            IN IF b[1] = "ref"
               THEN update_entry(st, b[2], e)
               ELSE [st EXCEPT !.boundaries = DictPut(@, env, Own(e @@ b[2]))]
       ELSE [st EXCEPT !.boundaries = DictPut(@, env, Own(e))]

handle_boundary_rule(st0, st, i) ==
    LET e == st.event_log[i]
    IN add_receipt(boundary_update(st, i),
              [type |-> "boundary_rule_receipt"]
              @@ Sub(e, {"environment_id", "interface_rules_present"}),
              e.time)

handle_revocation_policy(st0, st, i) ==
    LET e == st.event_log[i]
    IN add_receipt(st,
              [type |-> "revocation_policy_receipt"]
              @@ Sub(e, {"environment_id", "monitoring", "revocation_legible",
                         "revocation_contestable", "revocation_delay",
                         "revocation_delay_disclosed"}),
              e.time)

handle_default_setting(st0, st, i) ==
    LET e == st.event_log[i]
        x == expiry(e, Has(e, "duration"), Get(e, "duration", PyNone), e.time)
        e2 == [issued_at |-> e.time] @@ x.d @@ e
        st1 == [update_entry(st, i, e2) EXCEPT !.defaults = Append(@, Ref(i))]
    IN IF x.exc # "none" THEN Raise(st0, x.exc)
       ELSE add_receipt(st1,
              [type |-> "default_receipt", issued_at |-> e.time,
               active |-> Get(e, "active", TRUE)]
              @@ Sub(e2, {"default_id", "justifiable", "reversible", "expires_at"}),
              e.time)

handle_federated_governance(st0, st, i) ==
    LET e == st.event_log[i]
    IN add_receipt(boundary_update(st, i),
              [type |-> "federated_receipt"]
              @@ Sub(e, {"environment_id", "entry_exit_defined", "non_interference",
                         "auditability", "contestable"}),
              e.time)

handle_boundary_failure_modes(st0, st, i) ==
    LET e == st.event_log[i]
    IN add_receipt(st,
              [type |-> "failure_modes_receipt"]
              @@ Sub(e, {"environment_id", "implicit_consent", "opaque_enforcement",
                         "hidden_influence", "irrevocable_participation"}),
              e.time)

handle_respect_principles(st0, st, i) ==
    LET e == st.event_log[i]
    IN add_receipt(st,
              [type |-> "respect_principles_receipt"]
              @@ Sub(e, {"environment_id", "boundary_integrity", "non_coercion",
                         "mutual_legibility", "contextual_consent", "contestability"}),
              e.time)

handle_participation_declaration(st0, st, i) ==
    LET e == st.event_log[i]
    IN add_receipt(st,
              [type |-> "participation_declaration_receipt"]
              @@ Sub(e, {"environment_id", "scope_declared", "influence_declared",
                         "boundaries_declared", "enforcement_legible",
                         "enforcement_proportionate", "enforcement_contestable"}),
              e.time)

handle_trust_audit(st0, st, i) ==
    LET e == st.event_log[i]
    IN add_receipt([st EXCEPT !.audits = DictPut(@, "trust", Ref(i))],
              [type |-> "trust_audit_receipt"] @@ Sub(e, {"audit_id", "minimum_met"}),
              e.time)

handle_respect_audit(st0, st, i) ==
    LET e == st.event_log[i]
    IN add_receipt([st EXCEPT !.audits = DictPut(@, "respect", Ref(i))],
              [type |-> "respect_audit_receipt"] @@ Sub(e, {"audit_id", "minimum_met"}),
              e.time)

handle_enforcement(st0, st, i) ==
    LET e == st.event_log[i]
    IN add_receipt([st EXCEPT !.enforcement = Append(@, Ref(i))],
              [type |-> "enforcement_receipt"]
              @@ Sub(e, {"enforcement_id", "enforcer_id", "proportionate",
                         "transparent", "contestable", "reversible", "punitive",
                         "attributable", "contest_path"}),
              e.time)

handle_disclosure(st0, st, i) ==
    LET e == st.event_log[i]
    IN add_receipt([st EXCEPT !.disclosures = Append(@, Ref(i))],
              [type |-> "disclosure_receipt"]
              @@ Sub(e, {"disclosure_id", "user_actionable"}),
              e.time)

handle_limitation_disclosure(st0, st, i) ==
    LET e == st.event_log[i]
    IN add_receipt([st EXCEPT !.limitation_disclosures = Append(@, Ref(i))],
              [type |-> "limitation_receipt"]
              @@ Sub(e, {"limitation_id", "limits_disclosed"}),
              e.time)

\* apply_event(state, event) -> (new_state, receipts), or an exception
apply_event(st, ev) ==
    IF ~Has(ev, "type") \/ ev.type \notin KNOWN_EVENT_TYPES
    THEN apply_error(st, ev)
    ELSE LET st1 == log_event(st, stamp_event(st, ev))
             i == Len(st1.event_log)
         IN CASE ev.type = "delegation" -> handle_delegation(st, st1, i)
              [] ev.type = "revoke_delegation" -> handle_revoke_delegation(st, st1, i)
              [] ev.type = "consent" -> handle_consent(st, st1, i)
              [] ev.type = "withdraw_consent" -> handle_withdraw_consent(st, st1, i)
              [] ev.type = "telemetry" -> handle_telemetry(st, st1, i)
              [] ev.type = "service_action" -> handle_service_action(st, st1, i)
              [] ev.type = "shared_action" -> handle_shared_action(st, st1, i)
              [] ev.type = "time_advance" -> handle_time_advance(st, st1, i)
              [] ev.type = "boundary_declaration" -> handle_boundary_declaration(st, st1, i)
              [] ev.type = "entry_condition" -> handle_entry_condition(st, st1, i)
              [] ev.type = "entry_request" -> handle_entry_request(st, st1, i)
              [] ev.type = "boundary_rule" -> handle_boundary_rule(st, st1, i)
              [] ev.type = "revocation_policy" -> handle_revocation_policy(st, st1, i)
              [] ev.type = "default_setting" -> handle_default_setting(st, st1, i)
              [] ev.type = "federated_governance" -> handle_federated_governance(st, st1, i)
              [] ev.type = "boundary_failure_modes" -> handle_boundary_failure_modes(st, st1, i)
              [] ev.type = "respect_principles" -> handle_respect_principles(st, st1, i)
              [] ev.type = "participation_declaration" ->
                     handle_participation_declaration(st, st1, i)
              [] ev.type = "trust_audit" -> handle_trust_audit(st, st1, i)
              [] ev.type = "respect_audit" -> handle_respect_audit(st, st1, i)
              [] ev.type = "enforcement" -> handle_enforcement(st, st1, i)
              [] ev.type = "disclosure" -> handle_disclosure(st, st1, i)
              [] ev.type = "limitation_disclosure" -> handle_limitation_disclosure(st, st1, i)
              \* reductionist_metric: a known type with no handler and no receipt
              [] OTHER -> Ok(st1, <<>>)

-----------------------------------------------------------------------------
(* Reports *)

\* Report.add_violation(label, evidence_ids)
V(label, evidence) == <<[label |-> label, evidence |-> evidence]>>

When(c, vs) == IF c THEN vs ELSE <<>>

RECURSIVE Flatten(_)
Flatten(ss) == IF ss = <<>> THEN <<>> ELSE Head(ss) \o Flatten(Tail(ss))

\* Report.labels()
Labels(report) == [i \in DOMAIN report.violations |-> report.violations[i].label]
LabelSet(report) == {report.violations[i].label : i \in DOMAIN report.violations}

ID_KEYS ==
    <<"delegation_id", "consent_id", "telemetry_id", "decision_id",
      "environment_id", "enforcement_id", "default_id", "audit_id",
      "disclosure_id", "limitation_id">>

\* _event_id: "<type>:<value of the first identifier key present>", else
\* "<type>:event-<id(event)>", whose address is not modelled
event_id(e) ==
    IF \E k \in DOMAIN ID_KEYS : Has(e, ID_KEYS[k])
    THEN LET k == CHOOSE j \in DOMAIN ID_KEYS :
                      /\ Has(e, ID_KEYS[j])
                      /\ \A h \in 1..(j - 1) : ~Has(e, ID_KEYS[h])
         IN <<e.type, e[ID_KEYS[k]]>>
    ELSE <<e.type, "event-id">>

\* record_justification(event): the evidence it appends
justification_of(e) ==
    When(Has(e, "justification") /\ e.justification # "",
         <<<<event_id(e), "justification", e.justification>>>>)

receipt_evidence(r) == <<"receipt", r.receipt_id>>

\* the receipts of a type that are hits, as evidence ids; hits maps each index
\* of the receipt log to whether the receipt meets the condition of the check
ReceiptEvidence(st, type, hits) ==
    Flatten([i \in DOMAIN st.receipt_log |->
               LET r == st.receipt_log[i]
               IN When(r.type = type /\ hits[i], <<receipt_evidence(r)>>)])

\* the enforcement checks shared by both evaluators
enforcement_checks(st) ==
    Flatten([i \in DOMAIN st.enforcement |->
        LET e == Deref(st, st.enforcement[i])
            evidence == <<event_id(e)>>
        IN When(\/ ~Flag(e, "proportionate")
                \/ ~Flag(e, "transparent")
                \/ ~Flag(e, "contestable")
                \/ IsFalse(e, "reversible")
                \/ Flag(e, "punitive"),
                V("ENFORCEMENT_VIOLATION.SOVEREIGNTY_INCOMPATIBLE", evidence))
           \o When(~Flag(e, "attributable") \/ ~Has(e, "enforcer_id") \/ e.enforcer_id = "",
                   V("ENFORCEMENT_VIOLATION.NO_ATTRIBUTION", evidence))])

\* report.score: the score of the last reductionist_metric event, if any
score_of(st) ==
    LET metrics == {i \in DOMAIN st.event_log : st.event_log[i].type = "reductionist_metric"}
    IN IF metrics = {} THEN PyNone
       ELSE LET last == CHOOSE i \in metrics : \A j \in metrics : j <= i
            IN Get(st.event_log[last], "score", PyNone)

\* the undeterminable and reductionism checks shared by both evaluators
evaluation_checks(st) ==
    When(\E i \in DOMAIN st.event_log : Flag(st.event_log[i], "undeterminable"),
         V("EVALUATION_VIOLATION.UNDETERMINABLE_PASS", <<"undeterminable">>))
    \o When(score_of(st) # PyNone,
            V("EVALUATION_VIOLATION.REDUCTIONISM", <<"reductionism">>))

-----------------------------------------------------------------------------
(* evaluate_trust *)

\* _delegation_active_at without the issued_at bound
delegation_active_at_unissued(delegation, when) ==
    IF Has(delegation, "expires_at") /\ when >= delegation.expires_at[2] THEN FALSE
    ELSE IF Has(delegation, "revocation_effective_at")
         THEN when < delegation.revocation_effective_at
    ELSE ~Flag(delegation, "revoked")

\* _delegation_active_at with the expiry compared by > instead of >=
delegation_active_at_inclusive(delegation, when) ==
    IF Has(delegation, "issued_at") /\ when < delegation.issued_at THEN FALSE
    ELSE IF Has(delegation, "expires_at") /\ when > delegation.expires_at[2] THEN FALSE
    ELSE IF Has(delegation, "revocation_effective_at")
         THEN when < delegation.revocation_effective_at
    ELSE ~Flag(delegation, "revoked")

\* _delegation_active_at(delegation, when); expires_at is an integer here
delegation_active_at(delegation, when) ==
    IF Has(delegation, "issued_at") /\ when < delegation.issued_at THEN FALSE
    ELSE IF Has(delegation, "expires_at") /\ when >= delegation.expires_at[2] THEN FALSE
    ELSE IF Has(delegation, "revocation_effective_at")
         THEN when < delegation.revocation_effective_at
    ELSE ~Flag(delegation, "revoked")

\* _delegation_active_at raises TypeError: the comparison with expires_at is
\* reached and expires_at is not a number
delegation_active_at_faults(delegation, when) ==
    /\ ~(Has(delegation, "issued_at") /\ when < delegation.issued_at)
    /\ Has(delegation, "expires_at")
    /\ ~IsInt(delegation.expires_at)

\* int(decision["time"]) if it is not None, else state.clock
decision_time(st, decision) == IF Has(decision, "time") THEN decision.time ELSE st.clock

\* the delegation a decision cites, as state.delegations.get(delegation_id)
cited_delegation(st, decision) ==
    IF Has(decision, "delegation_id") /\ DictHas(st.delegations, decision.delegation_id)
    THEN <<Deref(st, DictGet(st.delegations, decision.delegation_id))>>
    ELSE <<>>

\* decision-time authority: the delegation is missing, belongs to another
\* S-User, or is not active at the decision's time
authority_untraceable(st, decision) ==
    LET g == cited_delegation(st, decision)
    IN \/ g = <<>>
       \/ Has(g[1], "suser_id") # Has(decision, "suser_id")
       \/ (Has(decision, "suser_id") /\ g[1].suser_id # decision.suser_id)
       \/ ~delegation_active_at(g[1], decision_time(st, decision))

\* int(event.get("time")) raises: the time is not None and not a number
time_faults(e) == Has(e, "bad_time")

\* the per-decision evaluation raises on this decision
decision_faults(st, decision) ==
    LET g == cited_delegation(st, decision)
    IN \/ time_faults(decision)
       \/ /\ g # <<>>
          /\ Has(g[1], "suser_id") = Has(decision, "suser_id")
          /\ (Has(decision, "suser_id") => g[1].suser_id = decision.suser_id)
          /\ delegation_active_at_faults(g[1], decision_time(st, decision))
       \* len(telemetry_refs) of a value that has no len()
       \/ (Has(decision, "telemetry_refs") /\ IsInt(decision.telemetry_refs))

\* the posthoc-authority guard of the receipt loop: the receipt's authority
\* chain names a delegation issued after the decision
receipt_posthoc(st, r) ==
    /\ r.type = "decision_receipt"
    /\ Has(r, "decision_time")
    /\ Has(r, "authority_chain") /\ IsList(r.authority_chain)
    /\ \E i \in DOMAIN r.authority_chain[2] :
          LET entry == r.authority_chain[2][i]
          IN /\ IsStr(entry)
             /\ DictHas(st.delegations, entry[2])
             /\ LET g == Deref(st, DictGet(st.delegations, entry[2]))
                IN Has(g, "issued_at") /\ g.issued_at > r.decision_time

receipt_loop_violations(st) ==
    Flatten([i \in DOMAIN st.receipt_log |->
        When(receipt_posthoc(st, st.receipt_log[i]),
             V("TRUST_VIOLATION.AUTHORITY_UNTRACEABLE",
               <<receipt_evidence(st.receipt_log[i])>>))])

delegation_checks(st) ==
    Flatten([i \in DOMAIN st.delegations |->
        LET g == Deref(st, st.delegations[i][2])
            evidence == <<event_id(g)>>
        IN When(~Flag(g, "explicit") \/ ~Flag(g, "scoped") \/ ~Flag(g, "revocable"),
                V("TRUST_VIOLATION.DELEGATION_INVALID", evidence))
           \o When(~Flag(g, "suser_can_inspect") \/ ~Flag(g, "suser_can_contest"),
                   V("TRUST_VIOLATION.SOVEREIGNTY_DISPLACED", evidence))
           \o When(~Flag(g, "suser_can_revoke"),
                   V("TRUST_VIOLATION.SOVEREIGNTY_DISPLACED", evidence))
           \o When(Flag(g, "derived_from_use"),
                   V("CONSENT_VIOLATION.IMPLICIT_DELEGATION", evidence))])

consent_coerced(c) ==
    Flag(c, "bundled") \/ Flag(c, "coerced") \/ Flag(c, "dark_pattern")
    \/ Flag(c, "assumed_by_use")

consent_checks(st) ==
    Flatten([i \in DOMAIN st.consents |->
        LET c == Deref(st, st.consents[i][2])
            evidence == <<event_id(c)>>
        IN When(\/ ~Flag(c, "informed") \/ ~Flag(c, "specific")
                \/ ~Flag(c, "revocable") \/ ~Flag(c, "revocation_effective"),
                V("CONSENT_VIOLATION.INVALID_CONSENT", evidence))
           \o When(consent_coerced(c),
                   V("CONSENT_VIOLATION.COERCED_OR_OPAQUE", evidence))])

telemetry_checks(st) ==
    Flatten([i \in DOMAIN st.telemetry |->
        LET t == Deref(st, st.telemetry[i][2])
            evidence == <<event_id(t)>>
        IN When(Flag(t, "prescriptive_use"),
                V("TELEMETRY_VIOLATION.PRESCRIPTIVE_USE", evidence))
           \o When(Flag(t, "influences") /\ ~Flag(t, "explained"),
                   V("TELEMETRY_VIOLATION.OPAQUE_INFLUENCE", evidence))
           \o When(IsFalse(t, "reports_to_service"),
                   V("ACCOUNTABILITY_VIOLATION.MISSING_REPORTING", evidence))])

\* elements of a tagged list, <<>> for a value that is not a list
Items(v) == IF IsList(v) THEN v[2] ELSE <<>>
Member(x, q) == \E i \in DOMAIN q : q[i] = x

uses_self_originating(st, refs) ==
    \E i \in DOMAIN refs :
        /\ DictHas(st.telemetry, refs[i])
        /\ Flag(Deref(st, DictGet(st.telemetry, refs[i])), "self_originating")

\* the authority_chain_override checks without the emptiness test
chain_override_break_nonempty(decision) ==
    /\ Has(decision, "authority_chain_override")
    /\ LET c == decision.authority_chain_override
       IN \/ ~IsList(c)
          \/ \E i \in DOMAIN c[2] : IsList(c[2][i]) \/ IsDict(c[2][i])
          \/ /\ Len(c[2]) > 0
             /\ c[2][Len(c[2])] # (IF Has(decision, "suser_id")
                                   THEN PyStr(decision.suser_id) ELSE PyNone)

\* the checks on authority_chain_override
chain_override_break(decision) ==
    /\ Has(decision, "authority_chain_override")
    /\ LET c == decision.authority_chain_override
       IN \/ ~IsList(c)
          \/ \E i \in DOMAIN c[2] : IsList(c[2][i]) \/ IsDict(c[2][i])
          \/ Len(c[2]) = 0
          \/ c[2][Len(c[2])] # (IF Has(decision, "suser_id")
                                THEN PyStr(decision.suser_id) ELSE PyNone)

decision_violations(st, d) ==
    LET evidence == <<event_id(d)>>
        refs == Items(Get(d, "telemetry_refs", PyList(<<>>)))
        sources == IF Has(d, "telemetry_aggregate_sources")
                   THEN Items(d.telemetry_aggregate_sources) ELSE <<>>
    IN When(~Has(d, "suser_id") \/ d.suser_id = "",
            V("TRUST_VIOLATION.SUSER_UNIDENTIFIED", evidence))
       \o When(Flag(d, "admin_override"),
               V("TRUST_VIOLATION.SOVEREIGNTY_ASSUMED", evidence))
       \o When(authority_untraceable(st, d),
               V("TRUST_VIOLATION.AUTHORITY_UNTRACEABLE", evidence))
       \o When(Flag(d, "automated") /\ ~Flag(d, "within_scope"),
               V("TRUST_VIOLATION.AUTONOMY_OVERREACH", evidence))
       \o When(Flag(d, "behavior_drift") /\ ~Flag(d, "mutation_authority"),
               V("TRUST_VIOLATION.AUTONOMY_OVERREACH", evidence))
       \o When(~Flag(d, "disclosed") \/ ~Flag(d, "justified")
               \/ ~Flag(d, "basis_in_delegation"),
               V("SERVICE_VIOLATION.SOVEREIGN_SUBSTITUTION", evidence))
       \o When(Flag(d, "ordering_inverted"),
               V("TRUST_VIOLATION.ORDERING_INVERTED", evidence))
       \o When(~Flag(d, "report_to_suser"),
               V("ACCOUNTABILITY_VIOLATION.MISSING_REPORTING", evidence))
       \o When(Has(d, "reporting_constraints") /\ ~Flag(d, "reporting_constraints_disclosed"),
               V("ACCOUNTABILITY_VIOLATION.MISSING_REPORTING", evidence))
       \o When(Flag(d, "report_to_suser") /\ ~Flag(d, "explanation_legible"),
               V("ACCOUNTABILITY_VIOLATION.ILLEGIBLE_REPORTING", evidence))
       \o When(~Flag(d, "explanation_legible"),
               V("ACCOUNTABILITY_VIOLATION.NON_LEGIBLE_EXPLANATION", evidence))
       \o When(~Has(d, "explanation") \/ d.explanation = "",
               V("ACCOUNTABILITY_VIOLATION.NON_LEGIBLE_EXPLANATION", evidence))
       \o When(IsFalse(d, "explanation_contextual"),
               V("ACCOUNTABILITY_VIOLATION.NON_LEGIBLE_EXPLANATION", evidence))
       \o When(~Has(d, "contest_path") \/ ~Has(d, "revocation_path"),
               V("ACCOUNTABILITY_VIOLATION.NON_ACCOUNTABLE_OUTCOME", evidence))
       \o When(~Flag(d, "authority_chain_complete"),
               V("TRUST_VIOLATION.ACCOUNTABILITY_BREAK", evidence))
       \o When(Len(refs) > 1 /\ IsFalse(d, "telemetry_attribution_complete"),
               V("TELEMETRY_VIOLATION.OPAQUE_INFLUENCE", evidence))
       \o When(Flag(d, "telemetry_aggregate")
               /\ (sources = <<>> \/ \E i \in DOMAIN sources : ~Member(sources[i], refs)),
               V("TELEMETRY_VIOLATION.OPAQUE_INFLUENCE", evidence))
       \o When(uses_self_originating(st, refs) /\ ~Flag(d, "self_telemetry_contained"),
               V("TELEMETRY_VIOLATION.OPAQUE_INFLUENCE", evidence))
       \o When(chain_override_break(d),
               V("TRUST_VIOLATION.ACCOUNTABILITY_BREAK", evidence))
       \o When(Flag(d, "lower_layer_authority_accumulation")
               \/ ~Flag(d, "higher_layer_can_intervene"),
               V("TRUST_VIOLATION.DIRECTIONALITY_BREACH", evidence))
       \o When(IsFalse(d, "diagnostic_ready"),
               V("ACCOUNTABILITY_VIOLATION.DIAGNOSTIC_GAP", evidence))
       \o When(/\ Has(d, "consent_id")
               /\ DictHas(st.consents, d.consent_id)
               /\ Flag(Deref(st, DictGet(st.consents, d.consent_id)), "withdrawn"),
               V("CONSENT_VIOLATION.INVALID_CONSENT", evidence))

decision_checks(st) ==
    Flatten([i \in DOMAIN st.decisions |->
               decision_violations(st, Deref(st, st.decisions[i]))])

telemetry_opaque(t) ==
    \/ (Flag(t, "influences") /\ ~Flag(t, "explained"))
    \/ (Flag(t, "influences") /\ ~Flag(t, "human_explainable"))

\* invalid_state taken back when a logged event carries a justification
trust_invalid_state_excused(st) ==
    /\ \/ \E i \in DOMAIN st.receipt_log :
             LET r == st.receipt_log[i]
             IN \/ (r.type = "delegation_receipt" /\ IsFalse(r, "revocable"))
                \/ (r.type = "consent_receipt" /\ consent_coerced(r))
                \/ (r.type = "telemetry_receipt" /\ telemetry_opaque(r))
       \/ \E i \in DOMAIN st.delegations :
             ~Flag(Deref(st, st.delegations[i][2]), "revocable")
       \/ \E i \in DOMAIN st.consents : consent_coerced(Deref(st, st.consents[i][2]))
       \/ \E i \in DOMAIN st.telemetry : telemetry_opaque(Deref(st, st.telemetry[i][2]))
       \/ \E i \in DOMAIN st.decisions :
             LET d == Deref(st, st.decisions[i])
             IN ~Has(d, "suser_id") \/ d.suser_id = "" \/ Flag(d, "inferred_intent")
    /\ ~\E i \in DOMAIN st.event_log : Has(st.event_log[i], "justification")

\* invalid_state as the receipt loop and the record loops set it
trust_invalid_state(st) ==
    \/ \E i \in DOMAIN st.receipt_log :
          LET r == st.receipt_log[i]
          IN \/ (r.type = "delegation_receipt" /\ IsFalse(r, "revocable"))
             \/ (r.type = "consent_receipt" /\ consent_coerced(r))
             \/ (r.type = "telemetry_receipt" /\ telemetry_opaque(r))
    \/ \E i \in DOMAIN st.delegations :
          ~Flag(Deref(st, st.delegations[i][2]), "revocable")
    \/ \E i \in DOMAIN st.consents : consent_coerced(Deref(st, st.consents[i][2]))
    \/ \E i \in DOMAIN st.telemetry : telemetry_opaque(Deref(st, st.telemetry[i][2]))
    \/ \E i \in DOMAIN st.decisions :
          LET d == Deref(st, st.decisions[i])
          IN ~Has(d, "suser_id") \/ d.suser_id = "" \/ Flag(d, "inferred_intent")

\* justification_evidence, in the order the loops append to it
justification_evidence(st) ==
    Flatten([i \in DOMAIN st.event_log |->
        LET e == st.event_log[i]
        IN When(e.type = "delegation" /\ IsFalse(e, "revocable"), justification_of(e))
           \o When(e.type = "consent" /\ consent_coerced(e), justification_of(e))
           \o When(e.type = "telemetry"
                   /\ (Flag(e, "prescriptive_use") \/ telemetry_opaque(e)),
                   justification_of(e))])
    \o Flatten([i \in DOMAIN st.delegations |->
        LET g == Deref(st, st.delegations[i][2])
        IN When(~Flag(g, "revocable"), justification_of(g))])
    \o Flatten([i \in DOMAIN st.consents |->
        LET c == Deref(st, st.consents[i][2])
        IN When(consent_coerced(c), justification_of(c))])
    \o Flatten([i \in DOMAIN st.telemetry |->
        LET t == Deref(st, st.telemetry[i][2])
        IN When(Flag(t, "influences") /\ ~Flag(t, "explained"), justification_of(t))
           \o When(Flag(t, "influences") /\ ~Flag(t, "human_explainable"),
                   justification_of(t))])
    \o Flatten([i \in DOMAIN st.decisions |->
        LET d == Deref(st, st.decisions[i])
        IN When(~Has(d, "suser_id") \/ d.suser_id = "", justification_of(d))
           \o When(Flag(d, "inferred_intent"), justification_of(d))])

\* missing_reporting_evidence, in receipt order
missing_reporting_evidence(st) ==
    Flatten([i \in DOMAIN st.receipt_log |->
        LET r == st.receipt_log[i]
        IN When(\/ (r.type = "decision_receipt" /\ IsFalse(r, "report_to_suser"))
                \/ (r.type = "telemetry_receipt" /\ IsFalse(r, "reports_to_service")),
                <<receipt_evidence(r)>>)])

\* one violation carrying the collected evidence, if any was collected
Collected(label, evidence) == When(evidence # <<>>, V(label, evidence))

receipt_evidence_violations(st) ==
    LET R == st.receipt_log
        Hits(cond(_)) == [i \in DOMAIN R |-> cond(R[i])]
        invalid(r) == IsFalse(r, "explicit") \/ IsFalse(r, "scoped")
                      \/ IsFalse(r, "revocable")
        implicit(r) == Flag(r, "derived_from_use")
        displaced(r) == IsFalse(r, "suser_can_inspect")
                        \/ IsFalse(r, "suser_can_contest")
                        \/ IsFalse(r, "suser_can_revoke")
        invalid_consent(r) == IsFalse(r, "informed") \/ IsFalse(r, "specific")
                              \/ IsFalse(r, "revocable")
                              \/ IsFalse(r, "revocation_effective")
        prescriptive(r) == Flag(r, "prescriptive_use")
        opaque(r) == Flag(r, "influences") /\ ~Flag(r, "explained")
        unreported(r) == IsFalse(r, "reports_to_service")
    IN Collected("TRUST_VIOLATION.DELEGATION_INVALID",
                 ReceiptEvidence(st, "delegation_receipt", Hits(invalid)))
       \o Collected("CONSENT_VIOLATION.IMPLICIT_DELEGATION",
                    ReceiptEvidence(st, "delegation_receipt", Hits(implicit)))
       \o Collected("TRUST_VIOLATION.SOVEREIGNTY_DISPLACED",
                    ReceiptEvidence(st, "delegation_receipt", Hits(displaced)))
       \o Collected("CONSENT_VIOLATION.INVALID_CONSENT",
                    ReceiptEvidence(st, "consent_receipt", Hits(invalid_consent)))
       \o Collected("CONSENT_VIOLATION.COERCED_OR_OPAQUE",
                    ReceiptEvidence(st, "consent_receipt", Hits(consent_coerced)))
       \o Collected("TELEMETRY_VIOLATION.PRESCRIPTIVE_USE",
                    ReceiptEvidence(st, "telemetry_receipt", Hits(prescriptive)))
       \o Collected("TELEMETRY_VIOLATION.OPAQUE_INFLUENCE",
                    ReceiptEvidence(st, "telemetry_receipt", Hits(opaque)))
       \o Collected("ACCOUNTABILITY_VIOLATION.MISSING_REPORTING",
                    ReceiptEvidence(st, "telemetry_receipt", Hits(unreported)))
       \o Collected("ACCOUNTABILITY_VIOLATION.MISSING_REPORTING",
                    missing_reporting_evidence(st))

trust_audit_checks(st) ==
    When(DictHas(st.audits, "trust")
         /\ ~Flag(Deref(st, DictGet(st.audits, "trust")), "minimum_met"),
         V("AUDIT_VIOLATION.TRUST_MINIMUM_MISSING",
           <<event_id(Deref(st, DictGet(st.audits, "trust")))>>))

disclosure_checks(st) ==
    Flatten([i \in DOMAIN st.disclosures |->
        LET d == Deref(st, st.disclosures[i])
        IN When(~Flag(d, "user_actionable"),
                V("ACCOUNTABILITY_VIOLATION.NON_ACTIONABLE_DISCLOSURE", <<event_id(d)>>))])
    \o Flatten([i \in DOMAIN st.limitation_disclosures |->
        LET d == Deref(st, st.limitation_disclosures[i])
        IN When(~Flag(d, "limits_disclosed"),
                V("ACCOUNTABILITY_VIOLATION.LIMITS_UNDISCLOSED", <<event_id(d)>>))])

\* the evaluation raises somewhere
trust_faults(st) ==
    \E i \in DOMAIN st.decisions : decision_faults(st, Deref(st, st.decisions[i]))

\* _evaluate_trust_unsafe: the report, or raised when the evaluation faults
evaluate_trust_unsafe(st) ==
    IF trust_faults(st)
    THEN [raised |-> TRUE, kind |-> "trust", violations |-> <<>>, score |-> PyNone,
          evaluator_error |-> FALSE]
    ELSE [raised |-> FALSE, kind |-> "trust",
          violations |->
              receipt_loop_violations(st)
              \o delegation_checks(st) \o consent_checks(st)
              \o telemetry_checks(st) \o decision_checks(st)
              \o When(trust_invalid_state(st),
                      V("STRUCTURAL_VIOLATION.INVALID_STATE", <<"structural">>)
                      \o Collected("STRUCTURAL_VIOLATION.JUSTIFIED_INVALIDITY",
                                   justification_evidence(st)))
              \o receipt_evidence_violations(st)
              \o trust_audit_checks(st)
              \o disclosure_checks(st)
              \o enforcement_checks(st)
              \o evaluation_checks(st),
          score |-> score_of(st),
          evaluator_error |-> FALSE]

\* the report both evaluators return when the evaluation raised
safety_net(kind) ==
    [raised |-> FALSE, kind |-> kind,
     violations |-> V("STRUCTURAL_VIOLATION.INVALID_STATE", <<"evaluator">>)
                    \o V("TRUST_VIOLATION.ACCOUNTABILITY_BREAK", <<"evaluator">>),
     score |-> PyNone,
     evaluator_error |-> TRUE]

\* evaluate_trust without the try/except
evaluate_trust_unguarded(st) == evaluate_trust_unsafe(st)

\* evaluate_trust: try _evaluate_trust_unsafe, except Exception the safety net
evaluate_trust(st) ==
    LET r == evaluate_trust_unsafe(st)
    IN IF r.raised THEN safety_net("trust") ELSE r

-----------------------------------------------------------------------------
(* evaluate_respect *)

\* the revocation_policy entries that disclose a revocation delay
disclosing_policies(st) ==
    {i \in DOMAIN st.event_log :
        LET e == st.event_log[i]
        IN /\ e.type = "revocation_policy"
           /\ Flag(e, "revocation_delay")
           /\ Flag(e, "revocation_delay_disclosed")}

\* revocation_delay_disclosed_at is not None and event_time is not before it
delay_disclosed_by(st, event_time) ==
    \E i \in disclosing_policies(st) : st.event_log[i].time <= event_time

\* any(suser != actor for suser in affected)
affects_others(action) ==
    LET affected == Items(Get(action, "affected_susers", PyList(<<>>)))
    IN \E i \in DOMAIN affected :
          ~Has(action, "actor_suser_id") \/ affected[i] # action.actor_suser_id

shared_action_checks(st) ==
    Flatten([i \in DOMAIN st.shared_actions |->
        LET a == Deref(st, st.shared_actions[i])
            evidence == <<event_id(a)>>
            others == affects_others(a)
            consent_basis == Get(a, "consent_basis", "<None>")
        IN When(others /\ consent_basis \notin {"mutual", "federated"},
                V("RESPECT_VIOLATION.UNILATERAL_IMPACT", evidence)
                \o V("RESPECT_VIOLATION.MUTUAL_CONSENT_MISSING", evidence))
           \o When(others /\ ~Flag(a, "consent_legible"),
                   V("RESPECT_VIOLATION.UNILATERAL_IMPACT", evidence))
           \o When(~Flag(a, "boundary_constraints_met") \/ ~Flag(a, "internal_accountable"),
                   V("RESPECT_VIOLATION.BOUNDARY_IGNORED", evidence))
           \o When(Flag(a, "cross_context") /\ ~Flag(a, "renewed_consent"),
                   V("RESPECT_VIOLATION.CONTEXT_LEAK", evidence))
           \o When(others /\ ~Flag(a, "influence_disclosed"),
                   V("RESPECT_VIOLATION.NON_INTERFERENCE_BREACH", evidence))
           \o When(others /\ consent_basis = "unilateral",
                   V("RESPECT_VIOLATION.UNILATERAL_CONSENT_BASIS", evidence))
           \o When(others /\ consent_basis = "none" /\ ~Flag(a, "scope_constrained"),
                   V("RESPECT_VIOLATION.MUTUAL_CONSENT_MISSING", evidence))
           \o When(IsFalse(a, "diagnostic_ready"),
                   V("RESPECT_VIOLATION.DIAGNOSTIC_GAP", evidence))])

entry_condition_checks(st) ==
    Flatten([i \in DOMAIN st.entry_conditions |->
        LET e == Deref(st, st.entry_conditions[i][2])
        IN When(~Flag(e, "conditions_defined"),
                V("GOVERNANCE_VIOLATION.MISSING_ENTRY_CONDITIONS", <<event_id(e)>>))])

\* the checks of the event-log loop on one entry
respect_event_violations(st, e) ==
    LET evidence == <<event_id(e)>>
        delay == int_or_zero(e, "delay").val
    IN When(e.type = "entry_request"
            /\ (~Flag(e, "entry_conditions_declared") \/ ~Flag(e, "entry_conditions_met")),
            V("GOVERNANCE_VIOLATION.MISSING_ENTRY_CONDITIONS", evidence))
       \o When(e.type = "boundary_rule" /\ IsFalse(e, "interface_rules_present"),
               V("GOVERNANCE_VIOLATION.INTERFACE_GAP", evidence))
       \o When(e.type = "revocation_policy"
               /\ (~Flag(e, "monitoring") \/ ~Flag(e, "revocation_legible")
                   \/ ~Flag(e, "revocation_contestable")),
               V("GOVERNANCE_VIOLATION.REVOCATION_DEFECT", evidence))
       \o When(e.type = "revocation_policy"
               /\ Flag(e, "revocation_delay")
               /\ ~Flag(e, "revocation_delay_disclosed"),
               V("GOVERNANCE_VIOLATION.REVOCATION_DEFECT", evidence))
       \o When(e.type = "revoke_delegation" /\ delay # 0
               /\ (\/ IsFalse(e, "delay_disclosed")
                   \/ (~Has(e, "delay_disclosed") /\ ~delay_disclosed_by(st, e.time))),
               V("GOVERNANCE_VIOLATION.REVOCATION_DEFECT", evidence))
       \o When(e.type = "boundary_declaration" /\ ~Flag(e, "explicit"),
               V("RESPECT_VIOLATION.IMPLICIT_BOUNDARIES", evidence))
       \o When(e.type = "federated_governance"
               /\ (~Flag(e, "entry_exit_defined") \/ ~Flag(e, "non_interference")
                   \/ ~Flag(e, "auditability") \/ ~Flag(e, "contestable")),
               V("GOVERNANCE_VIOLATION.FEDERATED_GAP", evidence))
       \o When(e.type = "boundary_failure_modes"
               /\ (Flag(e, "implicit_consent") \/ Flag(e, "opaque_enforcement")
                   \/ Flag(e, "hidden_influence") \/ Flag(e, "irrevocable_participation")),
               V("GOVERNANCE_VIOLATION.FAILURE_MODE_IGNORED", evidence))
       \o When(e.type = "respect_principles"
               /\ (~Flag(e, "boundary_integrity") \/ ~Flag(e, "non_coercion")
                   \/ ~Flag(e, "mutual_legibility") \/ ~Flag(e, "contextual_consent")
                   \/ ~Flag(e, "contestability")),
               V("RESPECT_VIOLATION.PRINCIPLE_BREACH", evidence))
       \o When(e.type = "participation_declaration"
               /\ (~Flag(e, "scope_declared") \/ ~Flag(e, "influence_declared")
                   \/ ~Flag(e, "boundaries_declared") \/ ~Flag(e, "enforcement_legible")
                   \/ ~Flag(e, "enforcement_proportionate")
                   \/ ~Flag(e, "enforcement_contestable")),
               V("RESPECT_VIOLATION.OPAQUE_ENFORCEMENT", evidence))

respect_event_checks(st) ==
    Flatten([i \in DOMAIN st.event_log |-> respect_event_violations(st, st.event_log[i])])

\* the disjuncts of the default check that come before the expiry comparison
default_coercive(d) ==
    \/ Flag(d, "exploits_bias") \/ Flag(d, "expands_scope")
    \/ Flag(d, "privileges_platform")
    \/ ~Flag(d, "justifiable") \/ ~Flag(d, "reversible")

\* state.clock >= expires_at is reached
default_expiry_compared(d) ==
    ~default_coercive(d) /\ Get(d, "active", TRUE) /\ Has(d, "expires_at")

\* default_checks with the expiry compared by > instead of >=
default_checks_exclusive(st) ==
    Flatten([i \in DOMAIN st.defaults |->
        LET d == Deref(st, st.defaults[i])
        IN When(\/ default_coercive(d)
                \/ (default_expiry_compared(d) /\ st.clock > d.expires_at[2]),
                V("RESPECT_VIOLATION.COERCIVE_DEFAULT", <<event_id(d)>>))])

default_checks(st) ==
    Flatten([i \in DOMAIN st.defaults |->
        LET d == Deref(st, st.defaults[i])
        IN When(\/ default_coercive(d)
                \/ (default_expiry_compared(d) /\ st.clock >= d.expires_at[2]),
                V("RESPECT_VIOLATION.COERCIVE_DEFAULT", <<event_id(d)>>))])

respect_audit_checks(st) ==
    When(DictHas(st.audits, "respect")
         /\ ~Flag(Deref(st, DictGet(st.audits, "respect")), "minimum_met"),
         V("AUDIT_VIOLATION.RESPECT_MINIMUM_MISSING",
           <<event_id(Deref(st, DictGet(st.audits, "respect")))>>))

\* the evaluation raises somewhere: iterating affected_susers that is not
\* iterable, or comparing the clock with an expires_at that is not a number
respect_faults(st) ==
    \* int(event.get("time") or 0) of a disclosing policy or a delayed revocation
    \/ \E i \in DOMAIN st.event_log :
          LET e == st.event_log[i]
          IN /\ time_faults(e) /\ Truthy(e.bad_time)
             /\ \/ i \in disclosing_policies(st)
                \/ (e.type = "revoke_delegation" /\ int_or_zero(e, "delay").val # 0)
    \/ \E i \in DOMAIN st.shared_actions :
          LET a == Deref(st, st.shared_actions[i])
          IN Has(a, "affected_susers") /\ IsInt(a.affected_susers)
    \/ \E i \in DOMAIN st.defaults :
          LET d == Deref(st, st.defaults[i])
          IN default_expiry_compared(d) /\ ~IsInt(d.expires_at)

\* _evaluate_respect_unsafe without the enforcement checks of evaluate_trust
evaluate_respect_unsafe_unmirrored(st) ==
    IF respect_faults(st)
    THEN [raised |-> TRUE, kind |-> "respect", violations |-> <<>>, score |-> PyNone,
          evaluator_error |-> FALSE]
    ELSE [raised |-> FALSE, kind |-> "respect",
          violations |->
              shared_action_checks(st)
              \o entry_condition_checks(st)
              \o respect_event_checks(st)
              \o default_checks(st)
              \o respect_audit_checks(st)
              \o evaluation_checks(st),
          score |-> score_of(st),
          evaluator_error |-> FALSE]

\* _evaluate_respect_unsafe: the report, or raised when the evaluation faults
evaluate_respect_unsafe(st) ==
    IF respect_faults(st)
    THEN [raised |-> TRUE, kind |-> "respect", violations |-> <<>>, score |-> PyNone,
          evaluator_error |-> FALSE]
    ELSE [raised |-> FALSE, kind |-> "respect",
          violations |->
              shared_action_checks(st)
              \o entry_condition_checks(st)
              \o respect_event_checks(st)
              \o default_checks(st)
              \o respect_audit_checks(st)
              \o enforcement_checks(st)
              \o evaluation_checks(st),
          score |-> score_of(st),
          evaluator_error |-> FALSE]

\* evaluate_respect: try _evaluate_respect_unsafe, except Exception the safety net
evaluate_respect(st) ==
    LET r == evaluate_respect_unsafe(st)
    IN IF r.raised THEN safety_net("respect") ELSE r

-----------------------------------------------------------------------------
(* S-User views *)

\* the names a receipt field can have, in the order sorted() puts them
SORTED_FIELDS ==
    <<"affected_susers", "authority_chain", "consent_id", "contest_path",
      "context_id", "decision_id", "decision_time", "delegation_id",
      "delivered_to_suser", "explanation", "explanation_contextual",
      "explanation_delivered", "explanation_legible", "receipt_hash",
      "receipt_hash_prev", "receipt_id", "redacted_fields", "report_to_suser",
      "reporting_constraints", "reporting_constraints_disclosed",
      "revocation_path", "service_id", "suser_id", "telemetry_refs", "time",
      "time_utc", "type">>

\* _receipt_visible_to_suser that shows an S-User every receipt naming it,
\* delivered or not
receipt_visible_to_suser_undelivered(receipt, suser_id) ==
    CASE receipt.type \in {"decision_receipt", "delegation_receipt", "consent_receipt"} ->
            Has(receipt, "suser_id") /\ receipt.suser_id = suser_id
      [] receipt.type = "shared_action_receipt" ->
            \/ (Has(receipt, "actor_suser_id") /\ receipt.actor_suser_id = suser_id)
            \/ Member(suser_id, Items(receipt.affected_susers))
      [] OTHER -> FALSE

\* _receipt_visible_to_suser(receipt, suser_id)
receipt_visible_to_suser(receipt, suser_id) ==
    CASE receipt.type = "decision_receipt" ->
            /\ Has(receipt, "suser_id") /\ receipt.suser_id = suser_id
            /\ IF Has(receipt, "delivered_to_suser")
               THEN receipt.delivered_to_suser
               ELSE ~IsFalse(receipt, "report_to_suser")
      [] receipt.type \in {"delegation_receipt", "consent_receipt"} ->
            Has(receipt, "suser_id") /\ receipt.suser_id = suser_id
      [] receipt.type = "shared_action_receipt" ->
            \/ (Has(receipt, "actor_suser_id") /\ receipt.actor_suser_id = suser_id)
            \/ Member(suser_id, Items(receipt.affected_susers))
      [] OTHER -> FALSE

\* _redact_receipt that redacts the receipt it is given instead of a copy
redact_receipt_in_place(receipt) ==
    LET names == Items(Get(receipt, "redacted_fields", PyList(<<>>)))
        redacted == {names[i] : i \in DOMAIN names}
                    \cup (IF IsFalse(receipt, "explanation_delivered")
                          THEN {"explanation", "explanation_legible"} ELSE {})
        listed(f) == f \in redacted
        view == IF redacted = {} THEN receipt
                ELSE [redacted_fields |-> PyList(SelectSeq(SORTED_FIELDS, listed))]
                     @@ Without(receipt, redacted)
    IN [view |-> view, receipt |-> view]

\* _redact_receipt(receipt) works on view, a copy of the receipt the caller
\* holds: [view, receipt] are the dict it returns and the caller's dict
\* after the call. view is without the redacted fields and lists them
\* sorted under redacted_fields when there are any; redacted_fields is a list
\* of names.
redact_receipt(receipt) ==
    LET names == Items(Get(receipt, "redacted_fields", PyList(<<>>)))
        redacted == {names[i] : i \in DOMAIN names}
                    \cup (IF IsFalse(receipt, "explanation_delivered")
                          THEN {"explanation", "explanation_legible"} ELSE {})
        listed(f) == f \in redacted
    IN [view |-> IF redacted = {} THEN receipt
                 ELSE [redacted_fields |-> PyList(SelectSeq(SORTED_FIELDS, listed))]
                      @@ Without(receipt, redacted),
        receipt |-> receipt]

\* suser_view(state, suser_id): [raised, suser_id, receipts], and receipt_log,
\* the receipt_log of the State after the call. It raises TypeError when
\* `suser_id in affected` is reached on a shared action receipt whose
\* affected_susers is not a container.
suser_view(st, suser_id) ==
    LET faults(r) ==
            /\ r.type = "shared_action_receipt"
            /\ ~(Has(r, "actor_suser_id") /\ r.actor_suser_id = suser_id)
            /\ IsInt(r.affected_susers)
        shown(i) == receipt_visible_to_suser(st.receipt_log[i], suser_id)
    IN IF \E i \in DOMAIN st.receipt_log : faults(st.receipt_log[i])
       THEN [raised |-> TRUE, suser_id |-> suser_id, receipts |-> <<>>,
             receipt_log |-> st.receipt_log]
       ELSE [raised |-> FALSE, suser_id |-> suser_id,
             receipts |->
                 Flatten([i \in DOMAIN st.receipt_log |->
                     When(shown(i), <<redact_receipt(st.receipt_log[i]).view>>)]),
             receipt_log |->
                 [i \in DOMAIN st.receipt_log |->
                     IF shown(i) THEN redact_receipt(st.receipt_log[i]).receipt
                     ELSE st.receipt_log[i]]]

\* the checks evaluate_trust_view runs on one visible receipt of a decision
view_receipt_violations(decision, receipt, suser_id) ==
    LET evidence == <<IF Has(receipt, "receipt_id")
                      THEN <<"receipt", receipt.receipt_id>>
                      ELSE <<"receipt", "unknown">>>>
        chain == Items(Get(receipt, "authority_chain", PyList(<<>>)))
    IN When(~Has(receipt, "explanation") \/ receipt.explanation = "",
            V("ACCOUNTABILITY_VIOLATION.NON_LEGIBLE_EXPLANATION", evidence))
       \o When(~Flag(receipt, "report_to_suser"),
               V("ACCOUNTABILITY_VIOLATION.MISSING_REPORTING", evidence))
       \o When(~Flag(receipt, "explanation_legible"),
               V("ACCOUNTABILITY_VIOLATION.ILLEGIBLE_REPORTING", evidence))
       \o When(IsFalse(receipt, "explanation_contextual"),
               V("ACCOUNTABILITY_VIOLATION.NON_LEGIBLE_EXPLANATION", evidence))
       \o When(/\ Has(decision, "telemetry_refs") /\ Truthy(decision.telemetry_refs)
               /\ ~(Has(receipt, "telemetry_refs") /\ Truthy(receipt.telemetry_refs)),
               V("TELEMETRY_VIOLATION.OPAQUE_INFLUENCE", evidence))
       \o When(~Has(receipt, "contest_path") \/ ~Has(receipt, "revocation_path"),
               V("ACCOUNTABILITY_VIOLATION.NON_ACCOUNTABLE_OUTCOME", evidence))
       \o When(\/ chain = <<>>
               \/ \E i \in DOMAIN chain : IsList(chain[i]) \/ IsDict(chain[i])
               \/ chain[Len(chain)] # PyStr(suser_id),
               V("TRUST_VIOLATION.ACCOUNTABILITY_BREAK", evidence))

\* the violations evaluate_trust_view adds for one decision, given the
\* receipts of suser_view: none when the requester neither owns the decision
\* nor is listed as affected; else MISSING_REPORTING when no decision receipt
\* of the view carries its decision_id; else the checks on each of these
view_decision_violations(view_receipts, decision, suser_id) ==
    LET rs == SelectSeq(view_receipts,
                  LAMBDA r : /\ Has(r, "type") /\ r.type = "decision_receipt"
                             /\ Get(r, "decision_id", NoneId)
                                = Get(decision, "decision_id", NoneId))
        affected == Items(Get(decision, "affected_susers", PyList(<<>>)))
    IN IF /\ ~(Has(decision, "suser_id") /\ decision.suser_id = suser_id)
          /\ ~Member(suser_id, affected)
       THEN <<>>
       ELSE IF rs = <<>>
       THEN V("ACCOUNTABILITY_VIOLATION.MISSING_REPORTING",
              <<<<"decision", Get(decision, "decision_id", NoneId), "missing_receipt">>>>)
       ELSE Flatten([k \in DOMAIN rs |->
                        view_receipt_violations(decision, rs[k], suser_id)])

\* evaluate_trust_view(state, suser_id); no safety net wraps it: it raises
\* TypeError when suser_view does, or when `suser_id not in affected` is
\* reached on a decision whose affected_susers is not a container
evaluate_trust_view(st, suser_id) ==
    LET view == suser_view(st, suser_id)
        faults(d) ==
            /\ ~(Has(d, "suser_id") /\ d.suser_id = suser_id)
            /\ Has(d, "affected_susers") /\ IsInt(d.affected_susers)
    IN IF \/ view.raised
          \/ \E i \in DOMAIN st.decisions : faults(Deref(st, st.decisions[i]))
       THEN [raised |-> TRUE, kind |-> "trust_view", violations |-> <<>>,
             score |-> PyNone, evaluator_error |-> FALSE]
       ELSE [raised |-> FALSE, kind |-> "trust_view",
             violations |->
                 Flatten([i \in DOMAIN st.decisions |->
                     view_decision_violations(view.receipts,
                                              Deref(st, st.decisions[i]), suser_id)]),
             score |-> PyNone, evaluator_error |-> FALSE]

-----------------------------------------------------------------------------
(* query_decision *)

\* the summary of the earliest recorded decision with the id
query_decision_first(st, decision_id) ==
    LET hits == {i \in DOMAIN st.decisions :
                   LET item == Deref(st, st.decisions[i])
                   IN Has(item, "decision_id") /\ item.decision_id = decision_id}
    IN IF hits = {} THEN [decision_id |-> decision_id, legible |-> FALSE]
       ELSE LET decision ==
                    Deref(st, st.decisions[CHOOSE i \in hits : \A j \in hits : i <= j])
            IN [decision_id |-> decision_id,
                data_influence |-> Get(decision, "telemetry_refs", PyList(<<>>)),
                affected_susers |-> Get(decision, "affected_susers", PyList(<<>>))]
               @@ (IF Has(decision, "service_id")
                   THEN [origin |-> decision.service_id] ELSE EmptyDict)
               @@ (IF Has(decision, "suser_id")
                   THEN [authoriser |-> decision.suser_id,
                         inspector |-> decision.suser_id,
                         revoker |-> decision.suser_id]
                   ELSE EmptyDict)
               @@ (IF Has(decision, "explanation_legible")
                   THEN [legible |-> decision.explanation_legible] ELSE EmptyDict)
               @@ Sub(decision, {"explanation", "context_id"})

\* query_decision(state, decision_id): the summary of the last recorded
\* decision with the id, or the minimal non-legible response
query_decision(st, decision_id) ==
    LET hits == {i \in DOMAIN st.decisions :
                   LET item == Deref(st, st.decisions[i])
                   IN Has(item, "decision_id") /\ item.decision_id = decision_id}
    IN IF hits = {} THEN [decision_id |-> decision_id, legible |-> FALSE]
       ELSE LET decision ==
                    Deref(st, st.decisions[CHOOSE i \in hits : \A j \in hits : j <= i])
            IN [decision_id |-> decision_id,
                data_influence |-> Get(decision, "telemetry_refs", PyList(<<>>)),
                affected_susers |-> Get(decision, "affected_susers", PyList(<<>>))]
               @@ (IF Has(decision, "service_id")
                   THEN [origin |-> decision.service_id] ELSE EmptyDict)
               @@ (IF Has(decision, "suser_id")
                   THEN [authoriser |-> decision.suser_id,
                         inspector |-> decision.suser_id,
                         revoker |-> decision.suser_id]
                   ELSE EmptyDict)
               @@ (IF Has(decision, "explanation_legible")
                   THEN [legible |-> decision.explanation_legible] ELSE EmptyDict)
               @@ Sub(decision, {"explanation", "context_id"})

-----------------------------------------------------------------------------
(* Events and actions *)

\* the longest event sequence applied to a State
MaxEvents == 3
\* the longest event sequence of the decision-time authority scenarios
MaxAuthEvents == 5

\* a delegation G that meets every structural requirement
delegation(suser) ==
    [type |-> "delegation", delegation_id |-> "G", suser_id |-> suser,
     grantee_id |-> "S", explicit |-> TRUE, scoped |-> TRUE, revocable |-> TRUE,
     suser_can_inspect |-> TRUE, suser_can_contest |-> TRUE,
     suser_can_revoke |-> TRUE]

scope(duration) == PyDict([duration |-> duration])

\* a service_action that meets every requirement a decision is checked for
service_action(suser) ==
    [type |-> "service_action", decision_id |-> "d1", suser_id |-> suser,
     service_id |-> "S", delegation_id |-> "G",
     disclosed |-> TRUE, justified |-> TRUE, basis_in_delegation |-> TRUE,
     report_to_suser |-> TRUE, explanation_legible |-> TRUE,
     explanation |-> "because", contest_path |-> "contest",
     revocation_path |-> "revoke", authority_chain_complete |-> TRUE,
     higher_layer_can_intervene |-> TRUE]

\* state: the State the caller holds; receipts, raised: what the last
\* apply_event call returned or raised; event: the event it was given;
\* steps: the number of calls made.
Init ==
    /\ state = NewState
    /\ receipts = <<>>
    /\ raised = "none"
    /\ event = EmptyDict
    /\ steps = 0

\* state, receipts = apply_event(state, ev); the caller keeps its state when
\* the call raises
Step(ev, max) ==
    /\ steps < max
    /\ LET r == apply_event(state, ev)
       IN /\ state' = r.state
          /\ receipts' = r.receipts
          /\ raised' = r.raised
    /\ event' = ev
    /\ steps' = steps + 1

Delegation ==
    \E ev \in
    {[scope |-> scope(PyInt(1))] @@ delegation("A"),
     [scope |-> scope(PyStr("x"))] @@ delegation("A"),
     [expires_at |-> PyStr("x")] @@ delegation("A"),
     [revocable |-> FALSE, justification |-> "operator"] @@ delegation("B"),
     [type |-> "delegation", suser_id |-> "A"]} :
        Step(ev, MaxEvents)

RevokeDelegation ==
    \E ev \in
    {[type |-> "revoke_delegation", delegation_id |-> "G"],
     [type |-> "revoke_delegation", delegation_id |-> "G", delay |-> PyInt(1)],
     [type |-> "revoke_delegation", delegation_id |-> "G", delay |-> PyStr("x")],
     [type |-> "revoke_delegation"]} :
        Step(ev, MaxEvents)

Consent ==
    \E ev \in
    {[type |-> "consent", consent_id |-> "C", suser_id |-> "A",
      informed |-> TRUE, specific |-> TRUE, revocable |-> TRUE,
      revocation_effective |-> TRUE],
     [type |-> "consent", suser_id |-> "A"]} :
        Step(ev, MaxEvents)

WithdrawConsent ==
    \E ev \in
    {[type |-> "withdraw_consent", consent_id |-> "C"],
     [type |-> "withdraw_consent"]} :
        Step(ev, MaxEvents)

Telemetry ==
    \E ev \in
    {[type |-> "telemetry", telemetry_id |-> "T", influences |-> TRUE,
      explained |-> TRUE, human_explainable |-> TRUE],
     [type |-> "telemetry", influences |-> TRUE]} :
        Step(ev, MaxEvents)

ServiceAction ==
    \E ev \in
    {service_action("A"),
     [telemetry_refs |-> PyInt(5)] @@ service_action("A"),
     [authority_chain_override |-> PyInt(5)] @@ service_action("A"),
     [type |-> "service_action", suser_id |-> "A"]} :
        Step(ev, MaxEvents)

SharedAction ==
    \E ev \in
    {[type |-> "shared_action", environment_id |-> "E", actor_suser_id |-> "A",
      affected_susers |-> PyList(<<"A", "B">>), consent_basis |-> "mutual",
      consent_legible |-> TRUE, boundary_constraints_met |-> TRUE,
      internal_accountable |-> TRUE, influence_disclosed |-> TRUE],
     [type |-> "shared_action", environment_id |-> "E", actor_suser_id |-> "A",
      affected_susers |-> PyInt(5)]} :
        Step(ev, MaxEvents)

TimeAdvance ==
    \E ev \in
    {[type |-> "time_advance", ticks |-> PyInt(1)],
     [type |-> "time_advance", ticks |-> PyInt(-1)],
     [type |-> "time_advance", ticks |-> PyStr("x")]} :
        Step(ev, MaxEvents)

BoundaryDeclaration ==
    \E ev \in
    {[type |-> "boundary_declaration", environment_id |-> "E", explicit |-> TRUE],
     [type |-> "boundary_declaration", environment_id |-> "E", explicit |-> FALSE],
     [type |-> "boundary_declaration", explicit |-> TRUE]} :
        Step(ev, MaxEvents)

EntryCondition ==
    \E ev \in
    {[type |-> "entry_condition", environment_id |-> "E", conditions_defined |-> TRUE],
     [type |-> "entry_condition", conditions_defined |-> TRUE]} :
        Step(ev, MaxEvents)

EntryRequest ==
    \E ev \in
    {[type |-> "entry_request", environment_id |-> "E",
      entry_conditions_declared |-> TRUE, entry_conditions_met |-> FALSE],
     [type |-> "entry_request", environment_id |-> "E",
      entry_conditions_declared |-> TRUE, entry_conditions_met |-> TRUE]} :
        Step(ev, MaxEvents)

BoundaryRule ==
    \E ev \in
    {[type |-> "boundary_rule", environment_id |-> "E",
      interface_rules_present |-> TRUE]} :
        Step(ev, MaxEvents)

RevocationPolicy ==
    \E ev \in
    {[type |-> "revocation_policy", environment_id |-> "E", monitoring |-> TRUE,
      revocation_legible |-> TRUE, revocation_contestable |-> TRUE,
      revocation_delay |-> TRUE, revocation_delay_disclosed |-> TRUE]} :
        Step(ev, MaxEvents)

DefaultSetting ==
    \E ev \in
    {[type |-> "default_setting", default_id |-> "F", justifiable |-> TRUE,
      reversible |-> TRUE, duration |-> PyInt(1)],
     [type |-> "default_setting", default_id |-> "F", justifiable |-> TRUE,
      reversible |-> TRUE, duration |-> PyStr("x")],
     [type |-> "default_setting", default_id |-> "F", justifiable |-> TRUE,
      reversible |-> TRUE, expires_at |-> PyStr("x")]} :
        Step(ev, MaxEvents)

FederatedGovernance ==
    \E ev \in
    {[type |-> "federated_governance", environment_id |-> "E",
      entry_exit_defined |-> TRUE, non_interference |-> TRUE,
      auditability |-> TRUE, contestable |-> TRUE]} :
        Step(ev, MaxEvents)

BoundaryFailureModes ==
    \E ev \in
    {[type |-> "boundary_failure_modes", environment_id |-> "E",
      implicit_consent |-> TRUE]} :
        Step(ev, MaxEvents)

RespectPrinciples ==
    \E ev \in
    {[type |-> "respect_principles", environment_id |-> "E",
      boundary_integrity |-> TRUE, non_coercion |-> TRUE,
      mutual_legibility |-> TRUE, contextual_consent |-> TRUE,
      contestability |-> FALSE]} :
        Step(ev, MaxEvents)

ParticipationDeclaration ==
    \E ev \in
    {[type |-> "participation_declaration", environment_id |-> "E",
      scope_declared |-> TRUE, influence_declared |-> TRUE,
      boundaries_declared |-> TRUE, enforcement_legible |-> TRUE,
      enforcement_proportionate |-> TRUE, enforcement_contestable |-> TRUE]} :
        Step(ev, MaxEvents)

TrustAudit ==
    \E ev \in
    {[type |-> "trust_audit", audit_id |-> "audit", minimum_met |-> m] : m \in BOOLEAN} :
        Step(ev, MaxEvents)

RespectAudit ==
    \E ev \in
    {[type |-> "respect_audit", audit_id |-> "audit", minimum_met |-> FALSE]} :
        Step(ev, MaxEvents)

Enforcement ==
    \E ev \in
    {[type |-> "enforcement", enforcement_id |-> "N", enforcer_id |-> "S",
      proportionate |-> TRUE, transparent |-> TRUE, contestable |-> TRUE,
      attributable |-> TRUE, punitive |-> TRUE],
     [type |-> "enforcement", enforcement_id |-> "N",
      proportionate |-> TRUE, transparent |-> TRUE, contestable |-> TRUE,
      attributable |-> TRUE]} :
        Step(ev, MaxEvents)

Disclosure ==
    \E ev \in
    {[type |-> "disclosure", disclosure_id |-> "D", user_actionable |-> FALSE],
     [type |-> "disclosure", disclosure_id |-> "D", user_actionable |-> TRUE,
      score |-> PyInt(7)]} :
        Step(ev, MaxEvents)

LimitationDisclosure ==
    \E ev \in
    {[type |-> "limitation_disclosure", limitation_id |-> "L",
      limits_disclosed |-> TRUE],
     [type |-> "limitation_disclosure", limitation_id |-> "L",
      limits_disclosed |-> TRUE, undeterminable |-> TRUE]} :
        Step(ev, MaxEvents)

ReductionistMetric ==
    \E ev \in
    {[type |-> "reductionist_metric", score |-> PyInt(7)],
     [type |-> "reductionist_metric"]} :
        Step(ev, MaxEvents)

\* events whose type is not one of the known types
UnknownType ==
    \E ev \in
    {[type |-> "bogus", delegation_id |-> "G", suser_id |-> "A"],
     [type |-> "bogus", environment_id |-> "E", original_type |-> "delegation",
      event_hash |-> PyStr("forged"), time_utc |-> DEFAULT_BASE_TIME_UTC]} :
        Step(ev, MaxEvents)

\* events without a type
MissingType ==
    \E ev \in
    {[delegation_id |-> "G", suser_id |-> "A"],
     [decision_id |-> "d1", delegation_id |-> "G", suser_id |-> "A"]} :
        Step(ev, MaxEvents)

-----------------------------------------------------------------------------
(* Specifications *)

Next ==
    \/ Delegation \/ RevokeDelegation \/ Consent \/ WithdrawConsent
    \/ Telemetry \/ ServiceAction \/ SharedAction \/ TimeAdvance
    \/ BoundaryDeclaration \/ EntryCondition \/ EntryRequest \/ BoundaryRule
    \/ RevocationPolicy \/ DefaultSetting \/ FederatedGovernance
    \/ BoundaryFailureModes \/ RespectPrinciples \/ ParticipationDeclaration
    \/ TrustAudit \/ RespectAudit \/ Enforcement \/ Disclosure
    \/ LimitationDisclosure \/ ReductionistMetric
    \/ UnknownType \/ MissingType

\* every event type, well formed and malformed, applied to a fresh State
Spec == Init /\ [][Next]_vars

\* States built by hand, as a caller of the evaluators can build them: a
\* decision, and an event_log entry, whose time is a list
MalformedTrustState ==
    [NewState EXCEPT !.decisions =
        <<Own([type |-> "service_action", decision_id |-> "decision_malformed",
               suser_id |-> "suser_malformed", service_id |-> "service_malformed",
               delegation_id |-> "delegation_malformed",
               bad_time |-> PyList(<<"not", "an", "int">>)])>>]

MalformedRespectState ==
    [NewState EXCEPT !.event_log =
        <<[type |-> "revocation_policy", revocation_delay |-> TRUE,
           revocation_delay_disclosed |-> TRUE,
           bad_time |-> PyList(<<"not", "an", "int">>)]>>]

InitEvaluators ==
    /\ state \in {NewState, MalformedTrustState, MalformedRespectState}
    /\ receipts = <<>>
    /\ raised = "none"
    /\ event = EmptyDict
    /\ steps = 0

\* the same events applied to a fresh State or to a State built by hand
SpecEvaluators == InitEvaluators /\ [][Next]_vars

\* Decision-time authority: delegations of G to A or B, with and without a
\* duration, revocations, decisions of A citing G, clock moves and trust
\* audits, in every order.
AuthDelegation ==
    \E ev \in
    {delegation("A"), [scope |-> scope(PyInt(1))] @@ delegation("A"), delegation("B")} :
        Step(ev, MaxAuthEvents)
AuthRevokeDelegation ==
    \E ev \in
    {[type |-> "revoke_delegation", delegation_id |-> "G"],
     [type |-> "revoke_delegation", delegation_id |-> "G", delay |-> PyInt(1)]} :
        Step(ev, MaxAuthEvents)
AuthServiceAction ==
    \E ev \in
    {service_action("A")} :
        Step(ev, MaxAuthEvents)
AuthTimeAdvance ==
    \E ev \in
    {[type |-> "time_advance", ticks |-> PyInt(1)],
     [type |-> "time_advance", ticks |-> PyInt(-1)]} :
        Step(ev, MaxAuthEvents)
AuthTrustAudit ==
    \E ev \in
    {[type |-> "trust_audit", audit_id |-> "audit", minimum_met |-> m] : m \in BOOLEAN} :
        Step(ev, MaxAuthEvents)

NextAuthority ==
    \/ AuthDelegation \/ AuthRevokeDelegation \/ AuthServiceAction
    \/ AuthTimeAdvance \/ AuthTrustAudit

SpecAuthority == Init /\ [][NextAuthority]_vars

\* What an S-User is shown: a delegation G of A, the consent C of A and its
\* withdrawal, decisions of A that cite them, and shared actions, in every
\* order.
MaxViewEvents == 4

ViewDelegation ==
    \E ev \in {delegation("A"), delegation("B")} : Step(ev, MaxViewEvents)

ViewConsent ==
    \E ev \in
    {[type |-> "consent", consent_id |-> "C", suser_id |-> "A",
      informed |-> TRUE, specific |-> TRUE, revocable |-> TRUE,
      revocation_effective |-> TRUE]} :
        Step(ev, MaxViewEvents)

ViewWithdrawConsent ==
    \E ev \in {[type |-> "withdraw_consent", consent_id |-> "C"]} :
        Step(ev, MaxViewEvents)

\* decisions of A and of B, delivered or withheld, with and without redacted
\* fields and affected S-Users
ViewServiceAction ==
    \E ev \in
    {service_action("A"),
     [consent_id |-> "C"] @@ service_action("A"),
     [redacted_fields |-> PyList(<<"authority_chain">>)] @@ service_action("A"),
     [redacted_fields |-> PyList(<<"decision_id", "authority_chain">>)]
        @@ service_action("A"),
     [redacted_fields |-> PyList(<<"authority_chain">>), receipt_delivered |-> FALSE]
        @@ service_action("A"),
     [report_to_suser |-> FALSE] @@ service_action("A"),
     [affected_susers |-> PyList(<<"B">>)] @@ service_action("A"),
     [explanation_delivered |-> FALSE] @@ service_action("A"),
     [decision_id |-> "d2",
      redacted_fields |-> PyList(<<"revocation_path", "redacted_fields">>)]
        @@ service_action("A"),
     [affected_susers |-> PyList(<<"A">>)] @@ service_action("B")} :
        Step(ev, MaxViewEvents)

ViewSharedAction ==
    \E ev \in
    {[type |-> "shared_action", environment_id |-> "E", actor_suser_id |-> "A",
      affected_susers |-> PyList(<<"A", "B">>), consent_basis |-> "mutual"],
     [type |-> "shared_action", environment_id |-> "E", actor_suser_id |-> "B",
      consent_basis |-> "mutual"]} :
        Step(ev, MaxViewEvents)

NextView ==
    \/ ViewDelegation \/ ViewConsent \/ ViewWithdrawConsent \/ ViewServiceAction
    \/ ViewSharedAction

SpecView == Init /\ [][NextView]_vars

MaxReplayEvents == 3

\* events as a caller first builds them, without metadata
ReplayFresh ==
    \E ev \in
    {[scope |-> scope(PyInt(1))] @@ delegation("A"),
     [type |-> "revoke_delegation", delegation_id |-> "G", delay |-> PyInt(1)],
     service_action("A"),
     [type |-> "time_advance", ticks |-> PyInt(1)],
     [type |-> "bogus", delegation_id |-> "G"]} :
        Step(ev, MaxReplayEvents)

\* events carrying metadata the caller made up: each of the four fields
\* alone, and all four (a time is an integer, as on a logged entry)
ReplayForged ==
    \E ev \in {delegation("A"), service_action("A"),
               [type |-> "bogus", delegation_id |-> "G"]} :
    \E meta \in
    {[event_hash |-> PyStr("forged")],
     [event_hash_prev |-> PyStr("forged")],
     [time |-> 7],
     [time_utc |-> PyStr("forged")],
     [event_hash |-> PyNone, event_hash_prev |-> PyInt(7),
      time |-> -1, time_utc |-> PyNone]} :
        Step(meta @@ ev, MaxReplayEvents)

\* an entry of the event log handed back to apply_event as it was logged,
\* with its time, time_utc, event_hash and event_hash_prev
ReplayLogged ==
    \E k \in DOMAIN state.event_log : Step(state.event_log[k], MaxReplayEvents)

NextReplay == ReplayFresh \/ ReplayForged \/ ReplayLogged

\* fresh events, forged metadata and replayed log entries
SpecReplay == Init /\ [][NextReplay]_vars

MaxPersistEvents == 3

\* delegation, consent, telemetry, service_action, shared_action,
\* default_setting and enforcement events, each type with an event that
\* triggers labels and one that triggers none and re-uses the same id;
\* delegations and a decision that carry a justification
SpecPersist ==
    Init /\ [][\E ev \in
               {delegation("A"),
                Without(delegation("A"), {"explicit"}),
                Without(delegation("A"), {"suser_can_revoke"}),
                [scoped |-> FALSE, derived_from_use |-> TRUE] @@ delegation("A"),
                [revocable |-> FALSE, justification |-> "operator"] @@ delegation("A"),
                [justification |-> "operator"] @@ delegation("A"),
                [type |-> "consent", consent_id |-> "C", suser_id |-> "A",
                 informed |-> TRUE, specific |-> TRUE, revocable |-> TRUE,
                 revocation_effective |-> TRUE],
                [type |-> "telemetry", telemetry_id |-> "T", influences |-> TRUE,
                 prescriptive_use |-> TRUE, reports_to_service |-> FALSE],
                [type |-> "telemetry", telemetry_id |-> "T", influences |-> TRUE,
                 explained |-> TRUE, human_explainable |-> TRUE,
                 reports_to_service |-> TRUE],
                service_action("A"),
                [automated |-> TRUE, explanation_contextual |-> FALSE,
                 report_to_suser |-> FALSE, authority_chain_complete |-> FALSE,
                 lower_layer_authority_accumulation |-> TRUE]
                   @@ Without(service_action("A"), {"delegation_id"}),
                [decision_id |-> "d2"] @@ Without(service_action("A"), {"suser_id"}),
                [decision_id |-> "d2", justification |-> "operator"]
                   @@ Without(service_action("A"), {"suser_id"}),
                [type |-> "shared_action", environment_id |-> "E",
                 actor_suser_id |-> "A", affected_susers |-> PyList(<<"A", "B">>),
                 consent_basis |-> "unilateral", cross_context |-> TRUE],
                [type |-> "shared_action", environment_id |-> "E",
                 actor_suser_id |-> "A", affected_susers |-> PyList(<<"A", "B">>),
                 consent_basis |-> "mutual", consent_legible |-> TRUE,
                 boundary_constraints_met |-> TRUE, internal_accountable |-> TRUE,
                 influence_disclosed |-> TRUE],
                [type |-> "default_setting", default_id |-> "F",
                 justifiable |-> FALSE, reversible |-> TRUE],
                [type |-> "default_setting", default_id |-> "F",
                 justifiable |-> TRUE, reversible |-> TRUE],
                [type |-> "enforcement", enforcement_id |-> "N",
                 proportionate |-> TRUE, transparent |-> TRUE, contestable |-> TRUE,
                 attributable |-> TRUE],
                [type |-> "enforcement", enforcement_id |-> "N", enforcer_id |-> "S",
                 proportionate |-> TRUE, transparent |-> TRUE, contestable |-> TRUE,
                 attributable |-> TRUE]} :
                   Step(ev, MaxPersistEvents)]_vars

MaxTelemetryEvents == 5

\* repeated telemetry for the ids T and U with the clock advancing between,
\* a delegation and a consent that telemetry must leave alone, and decisions
\* that cite the telemetry T with and without a delegation
SpecTelemetry ==
    Init /\ [][\E ev \in
               {[type |-> "telemetry", telemetry_id |-> "T", influences |-> TRUE,
                 explained |-> TRUE, human_explainable |-> TRUE,
                 reports_to_service |-> TRUE],
                [type |-> "telemetry", telemetry_id |-> "T", influences |-> FALSE],
                [type |-> "telemetry", telemetry_id |-> "U", influences |-> TRUE,
                 explained |-> TRUE, human_explainable |-> TRUE,
                 reports_to_service |-> TRUE],
                [type |-> "time_advance", ticks |-> PyInt(1)],
                delegation("A"),
                [type |-> "consent", consent_id |-> "C", suser_id |-> "A",
                 informed |-> TRUE, specific |-> TRUE, revocable |-> TRUE,
                 revocation_effective |-> TRUE],
                [telemetry_refs |-> PyList(<<"T">>)]
                   @@ Without(service_action("A"), {"delegation_id"}),
                [telemetry_refs |-> PyList(<<"T">>)] @@ service_action("A")} :
                   Step(ev, MaxTelemetryEvents)]_vars

\* the longest event sequence of the decision scenarios
MaxDecisionEvents == 3

\* decisions d1 (citing G, of A and of B), d2 and d3 (citing no delegation)
\* with complete and incomplete authority chains and with every shape of
\* authority_chain_override, one of them refused by apply_event; delegations of
\* G by A, and by B without the rights to inspect, contest and revoke; a
\* decision whose telemetry_refs is an integer and a prescriptive telemetry T
SpecDecisions ==
    Init /\ [][\E ev \in
               {delegation("A"),
                service_action("A"),
                [authority_chain_complete |-> FALSE] @@ service_action("A"),
                [decision_id |-> "d3"] @@ Without(service_action("A"), {"delegation_id"}),
                [decision_id |-> "d2",
                 authority_chain_override |-> PyList(<<PyStr("G"), PyStr("A")>>)]
                   @@ Without(service_action("A"), {"delegation_id"}),
                [decision_id |-> "d2",
                 authority_chain_override |-> PyList(<<PyStr("G"), PyStr("B")>>)]
                   @@ Without(service_action("A"), {"delegation_id"}),
                [decision_id |-> "d2", authority_chain_override |-> PyList(<<>>)]
                   @@ Without(service_action("A"), {"delegation_id"}),
                [decision_id |-> "d2",
                 authority_chain_override |->
                     PyList(<<PyList(<<PyStr("G")>>), PyStr("A")>>)]
                   @@ Without(service_action("A"), {"delegation_id"}),
                [decision_id |-> "d2",
                 authority_chain_override |->
                     PyList(<<PyDict([G |-> PyStr("B")]), PyStr("A")>>)]
                   @@ Without(service_action("A"), {"delegation_id"}),
                [decision_id |-> "d2",
                 authority_chain_override |-> PyDict([A |-> PyStr("A")])]
                   @@ Without(service_action("A"), {"delegation_id"}),
                [suser_can_inspect |-> FALSE, suser_can_contest |-> FALSE,
                 suser_can_revoke |-> FALSE] @@ delegation("B"),
                [explanation_legible |-> FALSE, explanation |-> "other",
                 context_id |-> "X", service_id |-> "T",
                 affected_susers |-> PyList(<<"A">>),
                 telemetry_refs |-> PyList(<<"T">>)] @@ service_action("B"),
                [authority_chain_override |-> PyInt(5), explanation |-> "never"]
                   @@ service_action("B"),
                [decision_id |-> "d3", telemetry_refs |-> PyInt(5)] @@ service_action("A"),
                [type |-> "telemetry", telemetry_id |-> "T", influences |-> TRUE,
                 prescriptive_use |-> TRUE, reports_to_service |-> FALSE]} :
                   Step(ev, MaxDecisionEvents)]_vars

-----------------------------------------------------------------------------
(* Properties *)

AUTHORITY_UNTRACEABLE == "TRUST_VIOLATION.AUTHORITY_UNTRACEABLE"
INVALID_STATE == "STRUCTURAL_VIOLATION.INVALID_STATE"
ACCOUNTABILITY_BREAK == "TRUST_VIOLATION.ACCOUNTABILITY_BREAK"

\* the event_log indices of the entries of a type
EntriesOfType(type) ==
    {i \in DOMAIN state.event_log : state.event_log[i].type = type}

\* C1 -- No retroactive authority: in every reachable state, for every
\* recorded decision that cites a delegation id whose stored delegation has
\* issued_at later than the decision's time, evaluate_trust reports
\* AUTHORITY_UNTRACEABLE (and the check of that very decision raises it),
\* whatever events were applied after the decision, a trust_audit with
\* minimum_met = True included.
C1_NoRetroactiveAuthority ==
    \A i \in DOMAIN state.decisions :
        LET d == Deref(state, state.decisions[i])
            g == cited_delegation(state, d)
            vs == decision_violations(state, d)
        IN (g # <<>> /\ Has(g[1], "issued_at") /\ g[1].issued_at > d.time)
           => /\ AUTHORITY_UNTRACEABLE \in LabelSet(evaluate_trust(state))
              /\ \E k \in DOMAIN vs : vs[k].label = AUTHORITY_UNTRACEABLE

\* a decision was applied before the delegation it cites was, at an earlier
\* logical time, and a trust audit asserting the minimum was applied after
\* that delegation
C1_Witness ==
    /\ DictHas(state.audits, "trust")
    /\ Flag(Deref(state, DictGet(state.audits, "trust")), "minimum_met")
    /\ DictHas(state.delegations, "G")
    /\ DictGet(state.audits, "trust")[2] > DictGet(state.delegations, "G")[2]
    /\ \E i \in DOMAIN state.decisions :
          LET d == Deref(state, state.decisions[i])
              g == cited_delegation(state, d)
          IN /\ state.decisions[i][2] < DictGet(state.delegations, "G")[2]
             /\ g # <<>> /\ g[1].issued_at > d.time

\* C2 -- A delegation recorded after a decision never justifies it: in
\* every state in which some service_action citing a delegation id was
\* applied before the first delegation event for that id, evaluate_trust
\* reports AUTHORITY_UNTRACEABLE, with or without a time_advance between the
\* two.
C2_LaterDelegationNeverJustifies ==
    (\E i \in EntriesOfType("service_action") :
        /\ Has(state.event_log[i], "delegation_id")
        /\ \A j \in 1..(i - 1) :
              ~(/\ state.event_log[j].type = "delegation"
                /\ state.event_log[j].delegation_id = state.event_log[i].delegation_id))
    => AUTHORITY_UNTRACEABLE \in LabelSet(evaluate_trust(state))

\* C3 -- event_log is append-only with immutable entries: every apply_event
\* call that returns leaves the event_log one entry longer, and every earlier
\* entry at its index with the same fields and values.
C3_EventLogAppendOnly ==
    [][raised' = "none" =>
         /\ Len(state'.event_log) = Len(state.event_log) + 1
         /\ \A i \in DOMAIN state.event_log :
               state'.event_log[i] = state.event_log[i]]_vars

\* C4 -- Receipt hash chain integrity: the first receipt's receipt_hash_prev
\* is None, every later receipt's receipt_hash_prev is the receipt_hash of the
\* receipt before it, and state.receipt_hash_prev is the receipt_hash of the
\* last receipt (None when there is no receipt).
C4_ReceiptHashChain ==
    LET log == state.receipt_log
    IN /\ \A i \in DOMAIN log :
             log[i].receipt_hash_prev =
                 (IF i = 1 THEN NoHash ELSE log[i - 1].receipt_hash)
       /\ state.receipt_hash_prev =
             (IF log = <<>> THEN NoHash ELSE log[Len(log)].receipt_hash)

\* three receipts are chained
C4_Witness == Len(state.receipt_log) = 3

\* C5 -- Event hash chain linkage: the first entry's event_hash_prev is None,
\* every later entry's event_hash_prev is the event_hash of the entry before
\* it, and state.event_hash_prev is the event_hash of the last entry.
C5_EventHashChain ==
    LET log == state.event_log
    IN /\ \A i \in DOMAIN log :
             log[i].event_hash_prev =
                 (IF i = 1 THEN NoHash ELSE log[i - 1].event_hash)
       /\ state.event_hash_prev =
             (IF log = <<>> THEN NoHash ELSE log[Len(log)].event_hash)

\* C6 -- apply_event is total: no call raises, whatever fields the event
\* holds, lacks or holds in an unexpected shape.
C6_ApplyEventTotal == raised = "none"

\* C7 -- The evaluators are total: evaluate_trust and evaluate_respect return
\* a report for every State, and when the internal evaluation faults the
\* report holds both INVALID_STATE and ACCOUNTABILITY_BREAK.
C7_EvaluatorsTotal ==
    /\ ~evaluate_trust(state).raised
    /\ ~evaluate_respect(state).raised
    /\ evaluate_trust_unsafe(state).raised
          => {INVALID_STATE, ACCOUNTABILITY_BREAK} \subseteq LabelSet(evaluate_trust(state))
    /\ evaluate_respect_unsafe(state).raised
          => {INVALID_STATE, ACCOUNTABILITY_BREAK}
                 \subseteq LabelSet(evaluate_respect(state))

\* a State built by hand with a decision whose time is a list, to which a
\* shared_action with affected_susers that cannot be iterated was applied:
\* both internal evaluations fault
C7_Witness ==
    /\ \E i \in DOMAIN state.decisions : time_faults(Deref(state, state.decisions[i]))
    /\ state.shared_actions # <<>>
    /\ evaluate_trust_unsafe(state).raised
    /\ evaluate_respect_unsafe(state).raised

\* the event has no type, or a type that is not a known one
Unrecognised(ev) == ~Has(ev, "type") \/ ev.type \notin KNOWN_EVENT_TYPES

\* the State fields other than the two logs, their chain tails and the
\* receipt counter
RECORD_FIELDS ==
    {"susers", "services", "telemetry_sources", "delegations", "consents",
     "telemetry", "decisions", "boundaries", "entry_conditions",
     "shared_actions", "defaults", "enforcement", "audits", "disclosures",
     "limitation_disclosures", "clock", "telemetry_exposure", "base_time_utc"}

\* C8 -- An event whose type is missing or unknown is handled in-band: the
\* call returns; exactly one entry, of type error and holding the original
\* type as original_type, is appended to event_log; exactly one receipt, an
\* error_receipt whose error is missing_event_type or
\* unknown_event_type:<type>, is returned and appended to receipt_log; every
\* other component of the state, and every earlier log entry, is unchanged.
C8_UnrecognisedTypeInBand ==
    [][Unrecognised(event') =>
         /\ raised' = "none"
         /\ Len(state'.event_log) = Len(state.event_log) + 1
         /\ \A i \in DOMAIN state.event_log :
               state'.event_log[i] = state.event_log[i]
         /\ LET e == state'.event_log[Len(state'.event_log)]
            IN /\ e.type = "error"
               /\ IF Has(event', "type")
                  THEN Has(e, "original_type") /\ e.original_type = event'.type
                  ELSE ~Has(e, "original_type")
         /\ Len(receipts') = 1
         /\ receipts'[1].type = "error_receipt"
         /\ receipts'[1].error =
               (IF Has(event', "type")
                THEN <<"unknown_event_type", event'.type>>
                ELSE <<"missing_event_type">>)
         /\ state'.receipt_log = Append(state.receipt_log, receipts'[1])
         /\ \A f \in RECORD_FIELDS : state'[f] = state[f]]_vars

\* an event without a type was applied to a State that holds a delegation
\* and a decision
C8_Witness ==
    /\ event # EmptyDict
    /\ ~Has(event, "type")
    /\ state.delegations # <<>>
    /\ state.decisions # <<>>
    /\ state.event_log[Len(state.event_log)].type = "error"
    /\ Len(receipts) = 1

\* C10 -- Delegation expiry window: in a state holding one delegation G of
\* the decision's S-User, never revoked, whose expires_at is issued_at +
\* scope.duration, and one service_action citing G applied at T >= issued_at,
\* evaluate_trust reports AUTHORITY_UNTRACEABLE if and only if
\* T >= expires_at.
C10_ExpiryWindow ==
    LET dgs == EntriesOfType("delegation")
        sas == EntriesOfType("service_action")
    IN (Cardinality(dgs) = 1 /\ Cardinality(sas) = 1
        /\ EntriesOfType("revoke_delegation") = {})
       => LET g == state.event_log[CHOOSE i \in dgs : TRUE]
              d == state.event_log[CHOOSE i \in sas : TRUE]
          IN (/\ d.delegation_id = g.delegation_id
              /\ d.suser_id = g.suser_id
              /\ Has(g, "scope") /\ Has(g, "expires_at")
              /\ g.expires_at = PyInt(g.issued_at + g.scope[2].duration[2])
              /\ d.time >= g.issued_at)
             => (AUTHORITY_UNTRACEABLE \in LabelSet(evaluate_trust(state))
                 <=> d.time >= g.expires_at[2])

\* the one decision was taken when the one delegation, with a duration and
\* never revoked, had expired
C10_Witness ==
    LET dgs == EntriesOfType("delegation")
        sas == EntriesOfType("service_action")
    IN /\ Cardinality(dgs) = 1 /\ Cardinality(sas) = 1
       /\ EntriesOfType("revoke_delegation") = {}
       /\ LET g == state.event_log[CHOOSE i \in dgs : TRUE]
              d == state.event_log[CHOOSE i \in sas : TRUE]
          IN /\ d.suser_id = g.suser_id
             /\ Has(g, "expires_at")
             /\ d.time >= g.expires_at[2]
             /\ AUTHORITY_UNTRACEABLE \in LabelSet(evaluate_trust(state))

\* C11 -- Scheduled revocation: once revoke_delegation(G, delay = d) was
\* applied at logical time R to the stored delegation G, every decision that
\* cites G with decision time T >= R + d is reported AUTHORITY_UNTRACEABLE
\* by evaluate_trust, in every state that follows until G is issued anew.
C11_ScheduledRevocation ==
    \A j \in EntriesOfType("revoke_delegation") :
        LET r == state.event_log[j]
        IN (DictHas(state.delegations, r.delegation_id)
            /\ DictGet(state.delegations, r.delegation_id)[2] < j)
           => \A i \in DOMAIN state.decisions :
                 LET d == Deref(state, state.decisions[i])
                     vs == decision_violations(state, d)
                 IN (/\ Has(d, "delegation_id")
                     /\ d.delegation_id = r.delegation_id
                     /\ d.time >= r.time + int_or_zero(r, "delay").val)
                    => /\ AUTHORITY_UNTRACEABLE \in LabelSet(evaluate_trust(state))
                       /\ \E k \in DOMAIN vs : vs[k].label = AUTHORITY_UNTRACEABLE

\* the consent c was given and then withdrawn, and no consent event for c
\* was applied after the withdrawal
ConsentWithdrawn(c) ==
    \E j \in EntriesOfType("withdraw_consent") :
        /\ state.event_log[j].consent_id = c
        /\ \E i \in 1..(j - 1) :
              /\ state.event_log[i].type = "consent"
              /\ state.event_log[i].consent_id = c
        /\ \A k \in (j + 1)..Len(state.event_log) :
              ~(/\ state.event_log[k].type = "consent"
                /\ state.event_log[k].consent_id = c)

\* C12 -- Withdrawn consent invalidates decisions: when consent c was given
\* and then withdrawn, with no consent event for c after the withdrawal,
\* the check of every decision citing consent_id c raises INVALID_CONSENT and
\* evaluate_trust reports it, for decisions applied before the withdrawal as
\* for decisions applied after it.
C12_WithdrawnConsentInvalidates ==
    \A i \in DOMAIN state.decisions :
        LET d == Deref(state, state.decisions[i])
            vs == decision_violations(state, d)
        IN (Has(d, "consent_id") /\ ConsentWithdrawn(d.consent_id))
           => /\ "CONSENT_VIOLATION.INVALID_CONSENT" \in LabelSet(evaluate_trust(state))
              /\ \E k \in DOMAIN vs : vs[k].label = "CONSENT_VIOLATION.INVALID_CONSENT"

\* the consent C was withdrawn between two decisions that cite it, and
\* INVALID_CONSENT is reported
C12_Witness ==
    /\ ConsentWithdrawn("C")
    /\ \E j \in EntriesOfType("withdraw_consent") :
          /\ \E i \in 1..(j - 1) :
                /\ state.event_log[i].type = "service_action"
                /\ Has(state.event_log[i], "consent_id")
          /\ \E k \in (j + 1)..Len(state.event_log) :
                /\ state.event_log[k].type = "service_action"
                /\ Has(state.event_log[k], "consent_id")
    /\ "CONSENT_VIOLATION.INVALID_CONSENT" \in LabelSet(evaluate_trust(state))

\* the receipt that the service_action of the k-th decision emitted: each
\* applied service_action appends one decision and one decision_receipt
DecisionReceipt(k) ==
    SelectSeq(state.receipt_log, LAMBDA r : r.type = "decision_receipt")[k]

\* C13 -- Redaction monotonicity: for every decision whose decision receipt
\* is delivered to the decision's S-User and has redacted_fields containing
\* authority_chain, the checks evaluate_trust_view runs for that S-User on
\* that decision raise ACCOUNTABILITY_BREAK.
C13_RedactionMonotonicity ==
    \A k \in DOMAIN state.decisions :
        LET d == Deref(state, state.decisions[k])
            r == DecisionReceipt(k)
        IN (/\ receipt_visible_to_suser(r, d.suser_id)
            /\ Member("authority_chain", Items(r.redacted_fields)))
           => /\ ~evaluate_trust_view(state, d.suser_id).raised
              /\ ACCOUNTABILITY_BREAK \in
                    LabelSet([violations |->
                        view_decision_violations(
                            suser_view(state, d.suser_id).receipts, d, d.suser_id)])

\* C14 -- suser_view(state, s) returns, in receipt_log order, one receipt
\* for each receipt_log entry that is a delivered decision_receipt of s
\* (delivered_to_suser when it is set, otherwise report_to_suser is not
\* False), a delegation_receipt or consent_receipt of s, or a
\* shared_action_receipt whose actor is s or whose affected_susers holds s,
\* and nothing else.
C14_SuserViewContents ==
    \A s \in {"A", "B"} :
        LET v == suser_view(state, s)
            own(r) == Has(r, "suser_id") /\ r.suser_id = s
            delivered(r) == IF Has(r, "delivered_to_suser")
                            THEN r.delivered_to_suser = TRUE
                            ELSE ~(Has(r, "report_to_suser") /\ r.report_to_suser = FALSE)
            shown(r) ==
                \/ r.type = "decision_receipt" /\ own(r) /\ delivered(r)
                \/ r.type \in {"delegation_receipt", "consent_receipt"} /\ own(r)
                \/ /\ r.type = "shared_action_receipt"
                   /\ \/ (Has(r, "actor_suser_id") /\ r.actor_suser_id = s)
                      \/ \E k \in DOMAIN r.affected_susers[2] :
                            r.affected_susers[2][k] = s
            expected == SelectSeq(state.receipt_log, shown)
        IN /\ ~v.raised
           /\ Len(v.receipts) = Len(expected)
           /\ \A i \in DOMAIN expected :
                 /\ v.receipts[i].receipt_id = expected[i].receipt_id
                 /\ v.receipts[i].receipt_hash = expected[i].receipt_hash

\* B is shown the receipt of a shared action of A that affects B and not
\* the receipt of a decision of A that affects B, and A is not shown the
\* receipt of its own decision that was withheld
C14_Witness ==
    /\ \E i \in DOMAIN state.receipt_log :
          LET r == state.receipt_log[i]
          IN /\ r.type = "shared_action_receipt" /\ r.actor_suser_id = "A"
             /\ \E k \in DOMAIN suser_view(state, "B").receipts :
                   suser_view(state, "B").receipts[k].receipt_id = r.receipt_id
    /\ \E i \in DOMAIN state.receipt_log :
          LET r == state.receipt_log[i]
          IN /\ r.type = "decision_receipt" /\ r.suser_id = "A"
             /\ r.affected_susers = PyList(<<"B">>)
             /\ \A k \in DOMAIN suser_view(state, "B").receipts :
                   suser_view(state, "B").receipts[k].receipt_id # r.receipt_id
    /\ \E i \in DOMAIN state.receipt_log :
          LET r == state.receipt_log[i]
          IN /\ r.type = "decision_receipt" /\ r.suser_id = "A"
             /\ Has(r, "delivered_to_suser") /\ ~r.delivered_to_suser
             /\ \A k \in DOMAIN suser_view(state, "A").receipts :
                   suser_view(state, "A").receipts[k].receipt_id # r.receipt_id

\* C15 -- For every decision that s owns or that lists s in
\* affected_susers, if no decision receipt carrying its decision_id is
\* visible to s then the only violation evaluate_trust_view(state, s) raises
\* for that decision is MISSING_REPORTING with the evidence
\* decision:<decision_id>:missing_receipt; and so it is, in every reachable
\* state, for every decision that lists s as affected and is owned by
\* another S-User, whose receipt s is never shown.
C15_MissingReceiptReported ==
    \A s \in {"A", "B"} :
        \A k \in DOMAIN state.decisions :
            LET d == Deref(state, state.decisions[k])
                affected == Member(s, Items(Get(d, "affected_susers", PyList(<<>>))))
                unseen == \A i \in DOMAIN state.receipt_log :
                              LET r == state.receipt_log[i]
                              IN (r.type = "decision_receipt"
                                  /\ r.decision_id = d.decision_id)
                                 => ~receipt_visible_to_suser(r, s)
                missing == V("ACCOUNTABILITY_VIOLATION.MISSING_REPORTING",
                             <<<<"decision", d.decision_id, "missing_receipt">>>>)
                vs == view_decision_violations(suser_view(state, s).receipts, d, s)
            IN /\ ((d.suser_id = s \/ affected) /\ unseen)
                  => (~evaluate_trust_view(state, s).raised /\ vs = missing)
               /\ (d.suser_id # s /\ affected)
                  => /\ ~receipt_visible_to_suser(DecisionReceipt(k), s)
                     /\ ~evaluate_trust_view(state, s).raised
                     /\ vs = missing

C17_ClockOnlyOnTimeAdvance ==
    [][LET advance == Has(event', "type") /\ event'.type = "time_advance"
           n == Len(state'.event_log)
       IN /\ ~advance => state'.clock = state.clock
          /\ raised' # "none" => state'.clock = state.clock
          /\ (advance /\ raised' = "none")
                => /\ IsInt(event'.ticks)
                   /\ state'.clock = state.clock + event'.ticks[2]
                   /\ Len(receipts') = 1
                   /\ receipts'[1].type = "time_receipt"
                   /\ receipts'[1].from_time = state.clock
                   /\ receipts'[1].to_time = state'.clock
          /\ raised' = "none"
                => /\ n = Len(state.event_log) + 1
                   /\ state'.event_log[n].time = state.clock
                   /\ \A k \in DOMAIN receipts' : receipts'[k].time = state.clock
      ]_vars

\* a time_advance applied at clock 1 has returned its receipt
C17_Witness ==
    /\ raised = "none"
    /\ Has(event, "type") /\ event.type = "time_advance"
    /\ Len(receipts) = 1
    /\ receipts[1].from_time = 1
    /\ receipts[1].to_time = 2
    /\ receipts[1].time = 1
    /\ state.clock = 2

\* C18: after any sequence of events the receipt_ids in receipt_log are
\* exactly 1, 2, ..., n in log order, and next_receipt_id is n + 1.
C18_ReceiptIdsSequential ==
    /\ \A k \in DOMAIN state.receipt_log : state.receipt_log[k].receipt_id = k
    /\ state.next_receipt_id = Len(state.receipt_log) + 1

\* two receipts are logged, one of them an error_receipt, by three events of
\* which one returned no receipt
C18_Witness ==
    /\ Len(state.receipt_log) = 2
    /\ Len(state.event_log) = 3
    /\ \E k \in DOMAIN state.receipt_log : state.receipt_log[k].type = "error_receipt"
    /\ \E k \in DOMAIN state.receipt_log : state.receipt_log[k].type # "error_receipt"
    /\ state.receipt_log[2].receipt_id = 2

\* C19: every apply_event call that returns, for each known event type and
\* for unknown types, returns at least one receipt and has appended what it
\* returns to receipt_log; so receipt_log is never shorter than event_log.
C19_EveryEventReceipted ==
    /\ (steps > 0 /\ raised = "none")
          => /\ Len(receipts) >= 1
             /\ Len(state.receipt_log) >= Len(receipts)
             /\ receipts = SubSeq(state.receipt_log,
                                  Len(state.receipt_log) - Len(receipts) + 1,
                                  Len(state.receipt_log))
    /\ Len(state.receipt_log) >= Len(state.event_log)

\* C20: replayed metadata is ignored: whatever event_hash, event_hash_prev,
\* time or time_utc the incoming event carries, apply_event logs the same
\* entry, returns the same receipts and the same new state (or raises the
\* same exception) as for the event without these fields.
C20_ReplayedMetadataIgnored ==
    [][LET bare == Without(event', {"event_hash", "event_hash_prev",
                                     "time", "time_utc"})
           r == apply_event(state, bare)
       IN /\ r.raised = raised'
          /\ r.receipts = receipts'
          /\ r.state = state'
          /\ raised' = "none"
                => r.state.event_log[Len(r.state.event_log)]
                     = state'.event_log[Len(state'.event_log)]
      ]_vars

\* an entry logged at an earlier clock, under an earlier chain tail, has been
\* applied again with its four metadata fields and logged anew
C20_Witness ==
    /\ raised = "none"
    /\ {"event_hash", "event_hash_prev", "time", "time_utc"} \subseteq DOMAIN event
    /\ \E k \in DOMAIN state.event_log :
          /\ k < Len(state.event_log)
          /\ state.event_log[k].event_hash = event.event_hash
          /\ event.time < state.event_log[Len(state.event_log)].time
          /\ event.event_hash # state.event_log[Len(state.event_log)].event_hash

\* C21: a logged revoke_delegation with a nonzero delay and no delay_disclosed
\* value is reported REVOCATION_DEFECT by evaluate_respect, with the
\* revocation as evidence, unless a revocation_policy disclosing a delay was
\* applied before it; a disclosure applied after the revocation does not
\* excuse it; with delay_disclosed False it is always reported.  (States whose
\* evaluation faults are left to the claim on the safety net.)
C21_UndisclosedDelayReported ==
    LET report == evaluate_respect(state)
        disclosing(k) ==
            /\ state.event_log[k].type = "revocation_policy"
            /\ Flag(state.event_log[k], "revocation_delay")
            /\ Flag(state.event_log[k], "revocation_delay_disclosed")
    IN ~report.evaluator_error =>
       \A j \in EntriesOfType("revoke_delegation") :
          LET r == state.event_log[j]
              reported ==
                  \E v \in DOMAIN report.violations :
                     /\ report.violations[v].label = "GOVERNANCE_VIOLATION.REVOCATION_DEFECT"
                     /\ report.violations[v].evidence = <<event_id(r)>>
          IN int_or_zero(r, "delay").val # 0 =>
                /\ (~Has(r, "delay_disclosed")
                    /\ ~\E k \in 1..(j - 1) : disclosing(k)) => reported
                /\ IsFalse(r, "delay_disclosed") => reported

C23_TelemetryInertia ==
    [][/\ LET report == evaluate_trust(state')
          IN \A i \in DOMAIN state'.decisions :
                LET d == Deref(state', state'.decisions[i])
                IN (~Has(d, "delegation_id") /\ Member("T", Items(d.telemetry_refs)))
                   => \E v \in DOMAIN report.violations :
                         /\ report.violations[v].label = AUTHORITY_UNTRACEABLE
                         /\ report.violations[v].evidence = <<event_id(d)>>
       /\ (event'.type = "telemetry" /\ raised' = "none")
          => LET id == event'.telemetry_id
                 n == Len(state.event_log)
                 old == IF DictHas(state.telemetry_exposure, id)
                        THEN DictGet(state.telemetry_exposure, id) ELSE 0
             IN /\ \A f \in DOMAIN state \
                         {"telemetry", "telemetry_sources", "telemetry_exposure",
                          "event_log", "receipt_log", "next_receipt_id",
                          "event_hash_prev", "receipt_hash_prev"} :
                       state'[f] = state[f]
                /\ SubSeq(state'.event_log, 1, n) = state.event_log
                /\ Len(state'.event_log) = n + 1
                /\ SubSeq(state'.receipt_log, 1, Len(state.receipt_log))
                      = state.receipt_log
                /\ state'.telemetry = DictPut(state.telemetry, id, Ref(n + 1))
                /\ state'.telemetry_sources = state.telemetry_sources \cup {id}
                /\ state'.telemetry_exposure
                      = DictPut(state.telemetry_exposure, id, old + 1)
                /\ Len(receipts') = 1
                /\ receipts'[1].exposure_count = old + 1
      ]_vars

\* the telemetry T has been applied twice with the clock advancing, a
\* delegation is on record, and a decision citing T without a delegation is
\* reported
C23_Witness ==
    /\ DictHas(state.telemetry_exposure, "T")
    /\ DictGet(state.telemetry_exposure, "T") = 2
    /\ state.clock >= 1
    /\ DictHas(state.delegations, "G")
    /\ \E i \in DOMAIN state.decisions :
          /\ ~Has(Deref(state, state.decisions[i]), "delegation_id")
          /\ AUTHORITY_UNTRACEABLE \in LabelSet(evaluate_trust(state))

\* C24: violations persist along a sequence of delegation, consent,
\* telemetry, service_action, shared_action, default_setting and enforcement
\* events: each of the listed labels that evaluate_trust (evaluate_respect)
\* reports after an event is still reported after every later event, a later
\* event that re-uses the same delegation_id or telemetry_id included;
\* AUTHORITY_UNTRACEABLE is followed for the decisions without delegation_id.
C24_ViolationsPersist ==
    [][LET before == evaluate_trust(state)
           after == evaluate_trust(state')
           unauthorised(report, d) ==
               \E v \in DOMAIN report.violations :
                  /\ report.violations[v].label = AUTHORITY_UNTRACEABLE
                  /\ report.violations[v].evidence = <<event_id(d)>>
       IN /\ \A label \in
                  {"TRUST_VIOLATION.DELEGATION_INVALID",
                   "CONSENT_VIOLATION.IMPLICIT_DELEGATION",
                   "TRUST_VIOLATION.SOVEREIGNTY_DISPLACED",
                   "TELEMETRY_VIOLATION.PRESCRIPTIVE_USE",
                   "TELEMETRY_VIOLATION.OPAQUE_INFLUENCE",
                   "ACCOUNTABILITY_VIOLATION.MISSING_REPORTING",
                   "TRUST_VIOLATION.SUSER_UNIDENTIFIED",
                   "TRUST_VIOLATION.AUTONOMY_OVERREACH",
                   "ACCOUNTABILITY_VIOLATION.NON_LEGIBLE_EXPLANATION",
                   "TRUST_VIOLATION.ACCOUNTABILITY_BREAK",
                   "TRUST_VIOLATION.DIRECTIONALITY_BREACH",
                   "ENFORCEMENT_VIOLATION.NO_ATTRIBUTION"} :
                label \in LabelSet(before) => label \in LabelSet(after)
          /\ \A i \in DOMAIN state.decisions :
                LET d == Deref(state, state.decisions[i])
                IN (~Has(d, "delegation_id") /\ unauthorised(before, d))
                   => unauthorised(after, d)
          /\ \A label \in
                  {"RESPECT_VIOLATION.MUTUAL_CONSENT_MISSING",
                   "RESPECT_VIOLATION.CONTEXT_LEAK",
                   "RESPECT_VIOLATION.COERCIVE_DEFAULT"} :
                label \in LabelSet(evaluate_respect(state))
                   => label \in LabelSet(evaluate_respect(state'))
      ]_vars

\* C25: a failed audit is reported: once a trust_audit with minimum_met False
\* has been applied, evaluate_trust reports TRUST_MINIMUM_MISSING, and once a
\* respect_audit with minimum_met False has been applied, evaluate_respect
\* reports RESPECT_MINIMUM_MISSING, whatever audit events are applied
\* afterwards.  (States whose evaluation faults are left to the claim on the
\* safety net.)
C25_FailedAuditReported ==
    LET failed(type) ==
            \E i \in EntriesOfType(type) : IsFalse(state.event_log[i], "minimum_met")
        trust == evaluate_trust(state)
        respect == evaluate_respect(state)
    IN /\ (failed("trust_audit") /\ ~trust.evaluator_error)
          => "AUDIT_VIOLATION.TRUST_MINIMUM_MISSING" \in LabelSet(trust)
       /\ (failed("respect_audit") /\ ~respect.evaluator_error)
          => "AUDIT_VIOLATION.RESPECT_MINIMUM_MISSING" \in LabelSet(respect)

\* C26: scalar scoring is always flagged: if any logged event, of any type,
\* carries a numeric score, evaluate_trust and evaluate_respect both report
\* REDUCTIONISM and expose a logged score in report.score, whatever events
\* follow.  (States whose evaluation faults are left to the claim on the
\* safety net.)
C26_ScalarScoreFlagged ==
    LET scores == {state.event_log[i].score :
                      i \in {j \in DOMAIN state.event_log :
                                /\ Has(state.event_log[j], "score")
                                /\ IsInt(state.event_log[j].score)}}
        flagged(report) ==
            ~report.evaluator_error
               => /\ "EVALUATION_VIOLATION.REDUCTIONISM" \in LabelSet(report)
                  /\ report.score \in scores
    IN scores # {} => flagged(evaluate_trust(state)) /\ flagged(evaluate_respect(state))

\* C27: entry conditions must be declared before entry: a logged
\* entry_request for an environment for which no entry_condition with
\* conditions_defined true was applied before it is reported
\* MISSING_ENTRY_CONDITIONS by evaluate_respect, with the request as evidence,
\* and so is every entry_request whose entry_conditions_declared or
\* entry_conditions_met is not true.  (States whose evaluation faults are
\* left to the claim on the safety net.)
C27_EntryConditionsBeforeEntry ==
    LET report == evaluate_respect(state)
    IN ~report.evaluator_error =>
       \A j \in EntriesOfType("entry_request") :
          LET r == state.event_log[j]
              declared ==
                  \E k \in 1..(j - 1) :
                     /\ state.event_log[k].type = "entry_condition"
                     /\ Get(state.event_log[k], "environment_id", NoneId)
                           = Get(r, "environment_id", NoneId)
                     /\ Flag(state.event_log[k], "conditions_defined")
          IN (\/ ~declared
              \/ ~Flag(r, "entry_conditions_declared")
              \/ ~Flag(r, "entry_conditions_met"))
             => \E v \in DOMAIN report.violations :
                   /\ report.violations[v].label
                         = "GOVERNANCE_VIOLATION.MISSING_ENTRY_CONDITIONS"
                   /\ report.violations[v].evidence = <<event_id(r)>>

\* C28: every violation that evaluate_trust emits from its per-decision checks
\* carries as evidence the identity of that decision,
\* service_action:<decision_id>, also when the decision cites a
\* delegation_id, a consent_id or another identifier.
C28_DecisionEvidenceIdentity ==
    LET report == evaluate_trust(state)
    IN ~report.evaluator_error =>
       \A i \in DOMAIN state.decisions :
          LET d == Deref(state, state.decisions[i])
              vs == decision_violations(state, d)
          IN \A k \in DOMAIN vs :
                /\ Has(d, "decision_id")
                /\ vs[k].evidence = << <<"service_action", d.decision_id>> >>
                /\ \E v \in DOMAIN report.violations : report.violations[v] = vs[k]

\* C29: justification never excuses an invalid state.  evaluate_trust reports
\* JUSTIFIED_INVALIDITY only in reports that also contain INVALID_STATE; and
\* of two event sequences that differ only in that some events carry a
\* justification string, every label reported without the justification is
\* reported with it.  The second sequence is followed step by step: applying
\* the event without its justification to the state without justifications
\* gives the same outcome as applying it with them, up to the justification
\* keys and the event hashes that cover them.
C29_JustificationNeverExcuses ==
    [][LET strip(st) ==
               [st EXCEPT !.event_log =
                   SubSeq([i \in DOMAIN @ |-> Without(@[i], {"justification"})],
                          1, Len(@))]
           unhashed(st) ==
               [st EXCEPT !.event_hash_prev = NoHash,
                          !.event_log =
                   SubSeq([i \in DOMAIN @ |->
                              Without(@[i], {"event_hash", "event_hash_prev"})],
                          1, Len(@))]
       IN \A bare \in {apply_event(strip(state), Without(event', {"justification"}))} :
          \A stripped \in {strip(state')} :
          \A with \in {LabelSet(evaluate_trust(state'))} :
          \A without \in {LabelSet(evaluate_trust(stripped))} :
             /\ bare.raised = raised'
             /\ bare.receipts = receipts'
             /\ unhashed(bare.state) = unhashed(stripped)
             /\ \A st \in {bare.state} : LabelSet(evaluate_trust(st)) = without
             /\ without \subseteq with
             /\ "STRUCTURAL_VIOLATION.JUSTIFIED_INVALIDITY" \in with
                   => INVALID_STATE \in with
      ]_vars

\* an irrevocable delegation carrying a justification is on record:
\* JUSTIFIED_INVALIDITY is reported, and INVALID_STATE is reported with and
\* without the justification
C29_Witness ==
    /\ raised = "none"
    /\ Has(event, "justification")
    /\ "STRUCTURAL_VIOLATION.JUSTIFIED_INVALIDITY" \in LabelSet(evaluate_trust(state))
    /\ INVALID_STATE
          \in LabelSet(evaluate_trust(
                 [state EXCEPT !.event_log =
                     SubSeq([i \in DOMAIN @ |-> Without(@[i], {"justification"})],
                            1, Len(@))]))
    /\ \E i \in DOMAIN state.delegations :
          LET g == Deref(state, state.delegations[i][2])
          IN IsFalse(g, "revocable") /\ Has(g, "justification")

C31_AccountabilityBreakCondition ==
    \A report \in {evaluate_trust(state)} :
        ~report.evaluator_error =>
            LET broken(d) ==
                    \/ ~Has(d, "authority_chain_complete")
                    \/ d.authority_chain_complete # TRUE
                    \/ /\ Has(d, "authority_chain_override")
                       /\ LET c == d.authority_chain_override
                          IN \/ c[1] # "list"
                             \/ \E i \in DOMAIN c[2] : c[2][i][1] \in {"list", "dict"}
                             \/ c[2] = <<>>
                             \/ c[2][Len(c[2])] # PyStr(d.suser_id)
                reported(d) ==
                    \E j \in DOMAIN report.violations :
                        report.violations[j] =
                            [label |-> ACCOUNTABILITY_BREAK, evidence |-> <<event_id(d)>>]
                decisions == {Deref(state, state.decisions[i]) : i \in DOMAIN state.decisions}
            IN \A d \in decisions :
                   /\ broken(d) => reported(d)
                   /\ reported(d) =>
                          \E other \in decisions :
                              event_id(other) = event_id(d) /\ broken(other)

\* a decision whose override ends in another S-User is reported next to a
\* decision with a complete chain and no override that is not
C31_Witness ==
    /\ ~evaluate_trust(state).evaluator_error
    /\ \E i, j \in DOMAIN state.decisions :
           LET d == Deref(state, state.decisions[i])
               ok == Deref(state, state.decisions[j])
           IN /\ Has(d, "authority_chain_override")
              /\ d.authority_chain_override = PyList(<<PyStr("G"), PyStr("B")>>)
              /\ ~Has(ok, "authority_chain_override")
              /\ ok.authority_chain_complete = TRUE
              /\ [label |-> ACCOUNTABILITY_BREAK, evidence |-> <<event_id(d)>>]
                     \in {evaluate_trust(state).violations[k] :
                            k \in DOMAIN evaluate_trust(state).violations}
              /\ [label |-> ACCOUNTABILITY_BREAK, evidence |-> <<event_id(ok)>>]
                     \notin {evaluate_trust(state).violations[k] :
                               k \in DOMAIN evaluate_trust(state).violations}

\* C32: query_decision(state, id) reports the most recently applied
\* service_action with that decision_id: its service, telemetry_refs,
\* legibility, explanation, context and affected S-Users, with authoriser,
\* inspector and revoker all equal to that decision's suser_id whatever the
\* rights the cited delegation grants; for an id no applied service_action
\* carries it returns only decision_id = id and legible = FALSE.
C32_QueryDecisionLastWriteWins ==
    \A id \in {"d1", "d2", "d3", "d4"} :
        LET applied == {i \in EntriesOfType("service_action") :
                          state.event_log[i].decision_id = id}
            response == query_decision(state, id)
        IN IF applied = {}
           THEN response = [decision_id |-> id, legible |-> FALSE]
           ELSE LET last == state.event_log[CHOOSE i \in applied : \A j \in applied : j <= i]
                IN /\ response.decision_id = id
                   /\ response.origin = last.service_id
                   /\ response.authoriser = last.suser_id
                   /\ response.inspector = last.suser_id
                   /\ response.revoker = last.suser_id
                   /\ response.legible = last.explanation_legible
                   /\ response.explanation = last.explanation
                   /\ response.data_influence = Get(last, "telemetry_refs", PyList(<<>>))
                   /\ response.affected_susers = Get(last, "affected_susers", PyList(<<>>))
                   /\ Has(response, "context_id") = Has(last, "context_id")
                   /\ Has(last, "context_id") => response.context_id = last.context_id

\* d1 was decided for A and then for B under a delegation that withholds the
\* rights to inspect, contest and revoke, and the query answers with B
C32_Witness ==
    /\ \E i, j \in EntriesOfType("service_action") :
           /\ i < j
           /\ state.event_log[i].decision_id = "d1"
           /\ state.event_log[j].decision_id = "d1"
           /\ state.event_log[i].suser_id = "A"
           /\ state.event_log[j].suser_id = "B"
           /\ \A k \in EntriesOfType("service_action") : k <= j
    /\ DictHas(state.delegations, "G")
    /\ IsFalse(Deref(state, DictGet(state.delegations, "G")), "suser_can_inspect")
    /\ query_decision(state, "d1").inspector = "B"
    /\ query_decision(state, "d1").revoker = "B"
    /\ query_decision(state, "d4") = [decision_id |-> "d4", legible |-> FALSE]

\* C33: the checks of evaluate_trust are independent and every applicable
\* violation is emitted: each violation that the delegation, consent and
\* telemetry records of the state trigger (PRESCRIPTIVE_USE for a telemetry
\* record among them) is in the report, whatever other records the state
\* holds, a service_action whose telemetry_refs is not a list included.
C33_ChecksIndependent ==
    \A report \in {evaluate_trust(state)} :
        LET owed == delegation_checks(state) \o consent_checks(state)
                    \o telemetry_checks(state)
        IN \A i \in DOMAIN owed :
               \E j \in DOMAIN report.violations : report.violations[j] = owed[i]

\* C34: an implicit boundary stays reported: evaluate_respect reports
\* IMPLICIT_BOUNDARIES in the state that applying a boundary_declaration
\* without explicit true leaves, and in every later state whatever event
\* follows (boundary_rule and federated_governance for the same
\* environment_id among them), for the reports the evaluator completes.
C34_ImplicitBoundaryPersists ==
    [][\A after \in {evaluate_respect(state')} :
           ~after.evaluator_error =>
               /\ (/\ raised' = "none"
                   /\ Has(event', "type")
                   /\ event'.type = "boundary_declaration"
                   /\ ~Flag(event', "explicit"))
                  => "RESPECT_VIOLATION.IMPLICIT_BOUNDARIES" \in LabelSet(after)
               /\ "RESPECT_VIOLATION.IMPLICIT_BOUNDARIES" \in LabelSet(evaluate_respect(state))
                  => "RESPECT_VIOLATION.IMPLICIT_BOUNDARIES" \in LabelSet(after)
      ]_vars

\* C35: revocation is permanent: once a revoke_delegation for the stored
\* delegation G has taken effect (the clock has reached its effective_at),
\* every service_action citing G that is applied from then on is reported
\* AUTHORITY_UNTRACEABLE by evaluate_trust in every later state in which no
\* delegation event under the id G followed the revocation, further
\* revoke_delegation events for G with another delay included.
C35_RevocationPermanent ==
    \A j \in EntriesOfType("revoke_delegation") :
        LET r == state.event_log[j]
            effective_at == r.time + int_or_zero(r, "delay").val
        IN (/\ DictHas(state.delegations, r.delegation_id)
            /\ DictGet(state.delegations, r.delegation_id)[2] < j
            /\ \A k \in EntriesOfType("delegation") :
                   (k > j) => state.event_log[k].delegation_id # r.delegation_id)
           => \A i \in DOMAIN state.decisions :
                 LET d == Deref(state, state.decisions[i])
                     vs == decision_violations(state, d)
                 IN (/\ state.decisions[i][2] > j
                     /\ Has(d, "delegation_id")
                     /\ d.delegation_id = r.delegation_id
                     /\ d.time >= effective_at)
                    => /\ \E k \in DOMAIN vs : vs[k].label = AUTHORITY_UNTRACEABLE
                       /\ ~evaluate_trust(state).evaluator_error
                          => AUTHORITY_UNTRACEABLE \in LabelSet(evaluate_trust(state))

\* C36: the logical clock never decreases: whatever event is applied, a
\* time_advance with any integer ticks included, state.clock after the call
\* is at least state.clock before it, and the times stamped on the entries
\* of event_log and of receipt_log are non-decreasing in log order.
C36_ClockMonotonic ==
    [][/\ state'.clock >= state.clock
       /\ \A i, j \in DOMAIN state'.event_log :
              i <= j => state'.event_log[i].time <= state'.event_log[j].time
       /\ \A i, j \in DOMAIN state'.receipt_log :
              i <= j => state'.receipt_log[i].time <= state'.receipt_log[j].time
      ]_vars

\* C37: every event_log entry's event_hash covers the entry as stored:
\* hash_chain over the stored entry without its event_hash and
\* event_hash_prev fields, chained to its event_hash_prev, reproduces its
\* event_hash, for the entries of every event type.
C37_EventHashCoversStoredEntry ==
    \A i \in DOMAIN state.event_log :
        LET entry == state.event_log[i]
        IN hash_chain(strip_hash_fields(entry, {"event_hash", "event_hash_prev"}),
                      entry.event_hash_prev) = entry.event_hash

\* C38: redaction never hides a violation in the S-User view: when a
\* service_action whose redacted_fields names some fields is applied, every
\* label that evaluate_trust_view reports for the decision's owner had the
\* same service_action named only a part of those fields is also reported
\* in the state reached.
C38_RedactionNeverHides ==
    [][(/\ raised' = "none"
        /\ Has(event', "type") /\ event'.type = "service_action"
        /\ Has(event', "suser_id")
        /\ Has(event', "redacted_fields") /\ IsList(event'.redacted_fields))
       => \A larger \in {evaluate_trust_view(state', event'.suser_id)} :
          \A keep \in SUBSET {event'.redacted_fields[2][i] :
                                i \in DOMAIN event'.redacted_fields[2]} :
              LET fields == SelectSeq(event'.redacted_fields[2], LAMBDA f : f \in keep)
                  smaller == apply_event(state,
                                 [redacted_fields |-> PyList(fields)] @@ event').state
              IN LabelSet(evaluate_trust_view(smaller, event'.suser_id))
                     \subseteq LabelSet(larger)
      ]_vars

\* C39: the authority_chain of a decision receipt is fixed when the
\* service_action is applied: it is the authority_chain_override when one is
\* given, else [delegation_id, that delegation's suser_id] when the
\* delegation is registered at that moment, else empty, and no later event
\* changes a receipt; so for every decision without an override that was
\* applied before any delegation under the id it cites, and whose receipt is
\* visible to its owner, evaluate_trust_view reports ACCOUNTABILITY_BREAK to
\* the owner in every later state.
C39_AuthorityChainFixed ==
    [][/\ SubSeq(state'.receipt_log, 1, Len(state.receipt_log)) = state.receipt_log
       /\ (raised' = "none" /\ Has(event', "type") /\ event'.type = "service_action")
          => Get(state'.receipt_log[Len(state'.receipt_log)], "authority_chain", PyNone) =
                 (IF Has(event', "authority_chain_override")
                  THEN event'.authority_chain_override
                  ELSE IF Has(event', "delegation_id")
                          /\ DictHas(state.delegations, event'.delegation_id)
                  THEN PyList(<<PyStr(event'.delegation_id),
                                PyStr(Deref(state, DictGet(state.delegations,
                                                           event'.delegation_id)).suser_id)>>)
                  ELSE PyList(<<>>))
       /\ \A k \in DOMAIN state'.decisions :
              LET d == Deref(state', state'.decisions[k])
                  r == SelectSeq(state'.receipt_log,
                                 LAMBDA x : x.type = "decision_receipt")[k]
              IN (/\ ~Has(d, "authority_chain_override")
                  /\ Has(d, "suser_id") /\ Has(d, "delegation_id")
                  /\ \A i \in 1..(state'.decisions[k][2] - 1) :
                         state'.event_log[i].type = "delegation"
                         => state'.event_log[i].delegation_id # d.delegation_id
                  /\ receipt_visible_to_suser(r, d.suser_id))
                 => ACCOUNTABILITY_BREAK \in
                        LabelSet(evaluate_trust_view(state', d.suser_id))
      ]_vars

====
